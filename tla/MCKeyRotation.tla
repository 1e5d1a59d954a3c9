---------------------------- MODULE MCKeyRotation ----------------------------
(***************************************************************************)
(* Instances of KeyRotation for TLC.                                       *)
(***************************************************************************)
EXTENDS KeyRotation, TLC

\* The rotate_key handlers are interchangeable.
HandlerSymmetry == Permutations(Rotators)

\* The hot swaps matter only in so far as a signer has seen the last one.
KeyView ==
  <<phase, disk, memory, fresh, size, rot, faults,
    [s \in Signers |-> <<[sgn[s] EXCEPT !.swaps = 0],
                        sgn[s].pc \in {"check", "sign", "pub", "ver"} /\ sgn[s].swaps = swaps>>]>>
=============================================================================
