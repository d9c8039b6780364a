------------------------------- MODULE MCChat -------------------------------
(***************************************************************************)
(* A small instance of ChatMessages: users, requests and emojis are        *)
(* interchangeable, and every property checked is one of safety.           *)
(***************************************************************************)
EXTENDS ChatMessages, TLC

Interchangeable ==
    Permutations(Users) \cup Permutations(Requests) \cup Permutations(Emojis)
=============================================================================
