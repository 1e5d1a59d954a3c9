---- MODULE MCLogServer ----
EXTENDS LogServer, TLC

\* Payloads and handlers are interchangeable; the STH task is not a handler.
HandlerSymmetry ==
  Permutations(Data) \cup Permutations(Writers) \cup Permutations(Signers \ {Task})

\* A state without the tree head a client holds and, after a power loss, the
\* receipts: no guard depends on them, and the properties checked with this view
\* look at the former only in the step that obtains it.
ServerView ==
  <<up, writer, signer, database, IF losses = 0 THEN acked ELSE {}, faults>>
====
