------------------------------ MODULE BackendIds ------------------------------
(***************************************************************************)
(* The ids that the collections of the backend share: an account's address *)
(* and a post's token id.                                                  *)
(***************************************************************************)
EXTENDS Integers, Sequences, FiniteSets

CONSTANTS
  Users,    \* the accounts
  Posts,    \* the token ids
  None      \* no account, post or document

ASSUME UsersAssumption == IsFiniteSet(Users) /\ None \notin Users
ASSUME PostsAssumption == IsFiniteSet(Posts) /\ None \notin Posts
=============================================================================
