----------------------------- MODULE MCSessions -----------------------------
(***************************************************************************)
(* Two environments: one that sets nothing, and one like that of           *)
(* docker-compose.yml, with a password for the administrator and a service *)
(* token.  Passwords and rates are only compared: both sets are symmetric. *)
(***************************************************************************)
EXTENDS Sessions, TLC

MCEnvironments ==
  {[admin |-> None, operator |-> None, token |-> FALSE]} \cup
  [admin : Passwords, operator : {None}, token : {TRUE}]

PasswordsAndRates == Permutations(Passwords) \cup Permutations(Rates)
=============================================================================
