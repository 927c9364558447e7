----------------------------- MODULE MCAccounts -----------------------------
(***************************************************************************)
(* Small instances of Accounts for TLC.                                    *)
(***************************************************************************)
EXTENDS Accounts, TLC

CONSTANTS c1, c2

OneClient == {c1}
TwoClients == {c1, c2}
ClientSymmetry == Permutations(TwoClients)

ThreeNames == {"kanbanoadmin", "ada", "bob"}

Member(name, admin) ==
  [name |-> name, admin |-> admin, mustChange |-> FALSE, version |-> 1]

Sign(name, version) == [kind |-> "login", name |-> name, version |-> version]
Role(i, admin) == [kind |-> "setRole", id |-> i, admin |-> admin]
Delete(i) == [kind |-> "deleteUser", id |-> i]
Reset(i) == [kind |-> "reset", id |-> i]
Password(version) == [kind |-> "password", version |-> version]
Access(board, i, on) == [kind |-> "share", board |-> board, id |-> i, access |-> on]
New(name, admin, board) ==
  [kind |-> "createUser", name |-> name, admin |-> admin, board |-> board]

(* A fresh installation, and one of an older version whose only account is *)
(* not the default administrator.                                          *)
Fresh == [users |-> [i \in {} |-> 0], boards |-> [b \in {} |-> 0], access |-> [p \in {} |-> TRUE]]
Older == [users |-> (1 :> Member("ada", TRUE)), boards |-> (1 :> 1),
          access |-> (<<1, 1>> :> TRUE)]

(* The default administrator, administrator ada, and bob, who owns board 1; *)
(* nobody owns board 2, where the default administrator was refused.       *)
Team ==
  [users |-> (1 :> Member("kanbanoadmin", TRUE)) @@ (2 :> Member("ada", TRUE))
             @@ (3 :> Member("bob", FALSE)),
   boards |-> (1 :> 3) @@ (2 :> 0),
   access |-> (<<1, 3>> :> TRUE) @@ (<<1, 1>> :> FALSE)]

-----------------------------------------------------------------------------
SerialStores == {Fresh, Older, Team}

SerialRequests ==
  {Sign("kanbanoadmin", 1), Sign("ada", 1), Sign("bob", 1), Password(1),
   Role(2, FALSE), Role(3, TRUE), Delete(2), Delete(3), New("bob", FALSE, 1),
   New("ada", TRUE, 0), Access(1, 3, FALSE), Access(1, 2, TRUE),
   [kind |-> "createBoard"], [kind |-> "logout"]}

(* Administrators ada and bob; the default administrator lost the role.    *)
Pair ==
  [users |-> (1 :> Member("kanbanoadmin", FALSE)) @@ (2 :> Member("ada", TRUE))
             @@ (3 :> Member("bob", TRUE)),
   boards |-> (1 :> 3), access |-> (<<1, 3>> :> TRUE)]

(* Logins, resets, changes, deletions and new accounts against each other. *)
RaceStores == {Pair}

RaceRequests ==
  {Sign("ada", 1), Sign("bob", 1), Sign("bob", 2), Password(1), Password(2),
   Reset(3), Delete(2), Delete(3), [kind |-> "signup", name |-> "bob"]}

-----------------------------------------------------------------------------
(* Two administrators take each other's role away.                         *)
DuelStores == {Team}

DuelRequests == {Sign("kanbanoadmin", 1), Sign("ada", 1), Role(1, FALSE), Role(2, FALSE)}
=============================================================================
