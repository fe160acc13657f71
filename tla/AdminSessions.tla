--------------------------- MODULE AdminSessions ---------------------------
(***************************************************************************)
(* What the panel promises the administrator: a session is opened in one   *)
(* step by whoever knows the password of that moment, and a change of      *)
(* password, or a logout, closes every session at once and for good.       *)
(***************************************************************************)
EXTENDS Naturals

CONSTANT Hashes

VARIABLES
  hash,    \* the password hash in force
  term,    \* how often the sessions have been closed
  open     \* the open sessions: the term and the hash each was opened with

Init == hash \in Hashes /\ term = 0 /\ open = {}

LogIn ==
  /\ open' = open \cup {[ver |-> term, hash |-> hash]}
  /\ UNCHANGED <<hash, term>>

CloseAll == term' = term + 1 /\ open' = {}

ChangePassword == hash' \in Hashes \ {hash} /\ CloseAll

\* A logout that another one, or a change of password, has overtaken closes too.
LogOut == CloseAll /\ UNCHANGED hash

Next == LogIn \/ ChangePassword \/ LogOut

SessionsSpec == Init /\ [][Next]_<<hash, term, open>>
=============================================================================
