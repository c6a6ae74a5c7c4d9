----------------------------- MODULE MCStateDB -----------------------------
(* Three accounts, two of which share most of their key. *)
EXTENDS StateDB

MCIndex == {0, 1, 16}
MCAddrHash == [plain |-> <<0, 0>>, contract |-> <<0, 1>>, far |-> <<16, 0>>]
MCWords == {1}
Rich == [Account EXCEPT !.Balance = 1]

\* Accounts come and go by transfers only.
Transfers ==
  [genesis |-> [plain |-> Rich, far |-> Rich], forks |-> {TRUE},
   journal |-> 2, revisions |-> 0,
   calls |-> ({"SubBalance"} \X {"plain", "contract", "far"})
               \union {<<"AddBalance", "contract">>, <<"SetNonce", "far">>}]

\* An account is emptied, touched, funded, given code and removed.
Lives ==
  [genesis |-> [plain |-> Rich], forks |-> BOOLEAN, journal |-> 2, revisions |-> 1,
   calls |-> {"AddBalance", "SubBalance", "SetCode", "Suicide"} \X {"plain"}]

\* A contract with storage is called, created again and removed.
Contracts ==
  [genesis |-> [contract |-> [Rich EXCEPT !.Root = [s \in Slots |-> 1]]],
   forks |-> {TRUE}, journal |-> 3, revisions |-> 1,
   calls |-> {"CreateAccount", "SetState", "Suicide"} \X {"contract"}]

MCWorlds == {Transfers, Lives, Contracts}
============================================================================
