-------------------------- MODULE MCDevConsoleBroker --------------------------
EXTENDS DevConsoleBroker, TLC

Symmetric == Permutations(Accounts) \cup Permutations(Clients)

(* No step reads a request once it is answered, and nothing changes it or  *)
(* its account's role: of such a request the view keeps only what the      *)
(* invariants say of it.  States that differ in more have the same         *)
(* successors, so none is left unexplored.                                 *)
View ==
  <<rows, sent, faults,
    [c \in Clients |-> IF calls[c].stage = "sent" THEN calls[c]
                       ELSE [authority |-> HasAuthority(c), tells |-> TellsEffects(c)]]>>
=============================================================================
