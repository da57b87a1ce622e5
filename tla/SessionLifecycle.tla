-------------------------- MODULE SessionLifecycle --------------------------
(***************************************************************************)
(* What logging in promises, whatever logins, refreshes, logouts and       *)
(* managing requests do at the same time: a session is opened once, for a  *)
(* user who may log in then, belongs to him until it ends, ends at the     *)
(* latest in the step that bars him, and never works again                 *)
(* (application/auth.py, application/identity_management.py).  Accounts is *)
(* checked and proved to implement it.                                     *)
(***************************************************************************)
CONSTANTS Session, User

VARIABLES
    enabled,   \* the users who may log in
    used,      \* the numbers that are taken
    open       \* the sessions that work, with their users

vars == <<enabled, used, open>>

Init == enabled \subseteq User /\ used = {} /\ open = {}

Begin(s, u) ==
    /\ s \notin used /\ used' = used \cup {s}
    /\ u \in enabled /\ open' = open \cup {<<s, u>>}
    /\ UNCHANGED enabled

(* A refresh takes a number, which is then no session's; the sessions stay *)
(* as they are, the refreshed one too.                                     *)
Refresh(s) ==
    /\ s \notin used /\ used' = used \cup {s}
    /\ UNCHANGED <<enabled, open>>

End(x) ==
    /\ open' = open \ {x}
    /\ UNCHANGED <<enabled, used>>

Admit(u) ==
    /\ enabled' = enabled \cup {u}
    /\ UNCHANGED <<used, open>>

(* All sessions of u end at once, and he may be barred or admitted: nobody *)
(* is barred in any other way.                                             *)
EndAll(u) ==
    /\ open' = {x \in open : x[2] # u}
    /\ enabled' \in {enabled, enabled \cup {u}, enabled \ {u}}
    /\ UNCHANGED used

Next ==
    \/ \E u \in User : Admit(u)
    \/ \E u \in User : EndAll(u)
    \/ \E x \in open : End(x)
    \/ \E s \in Session : Refresh(s) \/ \E u \in User : Begin(s, u)

Spec == Init /\ [][Next]_vars

(* What follows from it: a session that has ended does not work again,     *)
(* neither for its user nor for another one.                               *)
NeverRevived ==
    [][\A s \in used : \A u \in User : <<s, u>> \notin open => <<s, u>> \notin open']_vars
=============================================================================
