----------------------------- MODULE MCAccounts -----------------------------
(* Small instances of Accounts for TLC: one account logs in, from two      *)
(* addresses, beside another that may be the last administrator.           *)
EXTENDS Accounts, TLC

CONSTANTS u1, u2, i1, i2

MCUser == {u1, u2}
MCAddress == {i1, i2}
MCSubject == {<<u1, i1>>, <<u1, i2>>}

(* The users are not interchangeable: only u1 logs in.                     *)
Interchangeable ==
    Permutations(Admin) \cup Permutations(Client) \cup Permutations(Address)
=============================================================================
