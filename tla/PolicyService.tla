---------------------------- MODULE PolicyService ----------------------------
(***************************************************************************)
(* The policy service around the key store: who may change a user, and to  *)
(* whom the change is put down (core/management/policy: handleUsers,       *)
(* admins.go, oidc.go).  An administrator shows a bearer token, or the     *)
(* cookie of a session that began with a sign-in at the identity provider, *)
(* expires by itself, and may be ended by a logout.  Handlers run          *)
(* concurrently; each finds out twice who the caller is, and where a quota *)
(* is set, the second time only after the change.                          *)
(*                                                                         *)
(* A browser stands for one session: a second sign-in gets a session and a *)
(* cookie of its own, as another browser does.  Sessions and sign-ins that *)
(* have expired stay in the service's maps, but are never valid again.     *)
(* The service signs cookies with a secret it draws when it starts, so     *)
(* that a restart ends every session.                                      *)
(***************************************************************************)
EXTENDS KeyStore

CONSTANTS
    Bearers,    \* administrators with a token: NamedAdmins, AdminKey
    Browsers,
    Handlers,   \* the requests that may be served at once
    Unknown     \* what the audit trail has for a caller without a name

Callers == Bearers \cup Browsers

ASSUME PolicyAssumption ==
    /\ Bearers \cap Browsers = {}
    /\ Unknown \notin Callers

VARIABLES
    signing,   \* the browsers whose sign-in the service waits for
    session,   \* of each browser: none yet, an administrator's, or over
    asked,     \* the request of each handler
    trail      \* the entry the latest step added to the audit trail, if any

serviceVars == <<signing, session, asked>>

policyVars == <<serviceVars, trail>>

allVars == <<vars, policyVars>>

\* whole is history: the caller's credential has been good since the check.
NoRequest == [pc |-> "none", by |-> Unknown, quota |-> FALSE, actor |-> Unknown,
              whole |-> FALSE]

NoEntry == [actor |-> Unknown, by |-> Unknown, whole |-> FALSE]

\* authenticateAdmin: the name that goes with the token, or else the subject
\* of an administrator's session that has not expired.
Actor(a) == IF a \in Bearers \/ session[a] = "admin" THEN a ELSE Unknown

PolicyInit ==
    /\ Init
    /\ signing = {}
    /\ session = [b \in Browsers |-> "none"]
    /\ asked = [h \in Handlers |-> NoRequest]
    /\ trail = NoEntry

Up == pc[Policy] # "down"

Unlogged == trail' = NoEntry

-----------------------------------------------------------------------------
(* Sessions.                                                               *)

\* handleLogin hands out a state, which it remembers for ten minutes.
HandleLogin(b) ==
    /\ Up
    /\ b \notin signing
    /\ session[b] = "none"
    /\ signing' = signing \cup {b}
    /\ Unlogged /\ UNCHANGED <<vars, session, asked>>

\* handleCallback takes the state back, and begins a session in the role the
\* identity provider states, unless that refuses; the state is lost then.  A
\* session in any other role is worth no more than one that is over.
HandleCallback(b) ==
    /\ Up
    /\ b \in signing
    /\ signing' = signing \ {b}
    /\ \E s \in {"none", "admin", "over"} :
          session' = [session EXCEPT ![b] = s]
    /\ Unlogged /\ UNCHANGED <<vars, asked>>

\* The sessions of bs are over, and none of their requests has a whole one.
Ended(bs) ==
    /\ session' = [b \in Browsers |->
                     IF b \in bs /\ session[b] = "admin" THEN "over"
                                                         ELSE session[b]]
    /\ asked' = [h \in Handlers |->
                   IF asked[h].by \in bs THEN [asked[h] EXCEPT !.whole = FALSE]
                                         ELSE asked[h]]

HandleLogout(b) ==
    /\ Up
    /\ session[b] = "admin"
    /\ Ended({b})
    /\ Unlogged /\ UNCHANGED <<vars, signing>>

\* A state or a session expires.
Expire(b) ==
    /\ \/ b \in signing /\ signing' = signing \ {b} /\ UNCHANGED <<session, asked>>
       \/ session[b] = "admin" /\ Ended({b}) /\ UNCHANGED signing
    /\ Unlogged /\ UNCHANGED vars

-----------------------------------------------------------------------------
(* handleUsers.                                                            *)

Now(h, r) == asked' = [asked EXCEPT ![h] = r]

\* checkAdminAuth.  Which user is to be changed, and how, is chosen with the
\* change: the service's memory keeps the users it has while it runs, so that
\* one it does not know would be turned away here as well.
CheckAdminAuth(h, a) ==
    /\ Up
    /\ asked[h].pc = "none"
    /\ begun < MaxChanges
    /\ Actor(a) # Unknown
    /\ \E quota \in BOOLEAN :
          Now(h, [NoRequest EXCEPT !.pc = IF quota THEN "named" ELSE "checked",
                                   !.by = a, !.quota = quota, !.whole = TRUE])
    /\ Unlogged /\ UNCHANGED <<vars, signing, session>>

\* A change of models is put down to the caller as it is before the change.
Name(h) ==
    /\ asked[h].pc = "checked"
    /\ Now(h, [asked[h] EXCEPT !.pc = "named", !.actor = Actor(asked[h].by)])
    /\ Unlogged /\ UNCHANGED <<vars, signing, session>>

\* The store's method begins, or finds that there is nothing to do.
Change(h) ==
    /\ asked[h].pc = "named"
    /\ \E c \in PolicyChanges :
          /\ (c.op = "quota") = asked[h].quota
          /\ \/ /\ HandleUsers(c)
                /\ Now(h, [asked[h] EXCEPT !.pc = "saving"])
             \/ /\ pc[Policy] = "idle"
                /\ ~Refused(c, copy[Policy]) /\ Unneeded(Policy, c, copy[Policy])
                /\ Now(h, [asked[h] EXCEPT !.pc = "saved"])
                /\ UNCHANGED vars
    /\ Unlogged /\ UNCHANGED <<signing, session>>

\* What becomes of the request whose change p was saving.
Returned(p, pc2) ==
    asked' = [h \in Handlers |->
                IF p # Policy \/ asked[h].pc # "saving" THEN asked[h]
                ELSE IF pc2 = "none" THEN NoRequest
                ELSE [asked[h] EXCEPT !.pc = pc2]]

\* The store's method goes on, and returns when the change is saved.
GoOn(p) ==
    /\ \/ (Lock(p) \/ CreateTemp(p) \/ WriteTemp(p) \/ Rename(p)) /\ UNCHANGED asked
       \/ Unlock(p) /\ Returned(p, "saved")
    /\ Unlogged /\ UNCHANGED <<signing, session>>

\* It returns an error; the caller gets that, and nothing is put down.
GiveUp(p) ==
    /\ Fail(p) /\ Returned(p, "none")
    /\ Unlogged /\ UNCHANGED <<signing, session>>

\* Faulty variant: a change of quota is put down as one of models is.
AuditNameless(h) ==
    /\ asked[h].pc = "saved"
    /\ trail' = [actor |-> asked[h].actor, by |-> asked[h].by,
                 whole |-> asked[h].whole]
    /\ Now(h, NoRequest)
    /\ UNCHANGED <<vars, signing, session>>

\* A change of quota is put down to the caller as it is after the change.
Audit(h) ==
    LET r == asked[h]
    IN  /\ r.pc = "saved"
        /\ trail' = [actor |-> IF r.quota THEN Actor(r.by) ELSE r.actor,
                     by |-> r.by, whole |-> r.whole]
        /\ Now(h, NoRequest)
        /\ UNCHANGED <<vars, signing, session>>

-----------------------------------------------------------------------------

\* The service dies, with its requests, sessions and sign-ins.
ServiceDies ==
    /\ Crash(Policy)
    /\ asked' = [h \in Handlers |-> NoRequest]
    /\ session' = [b \in Browsers |-> IF session[b] = "none" THEN "none" ELSE "over"]
    /\ signing' = {}
    /\ Unlogged

PolicyNext ==
    \/ \E b \in Browsers :
          HandleLogin(b) \/ HandleCallback(b) \/ HandleLogout(b) \/ Expire(b)
    \/ \E h \in Handlers :
          \/ \E a \in Callers : CheckAdminAuth(h, a)
          \/ Name(h) \/ Change(h) \/ Audit(h)
    \/ \E p \in Writers : GoOn(p) \/ GiveUp(p)
    \/ ServiceDies
    \/ /\ Restart \/ \E p \in Clis : KeysCommand(p) \/ Crash(p)
       /\ Unlogged /\ UNCHANGED serviceVars

\* A save that is not failed goes on; flock gives the lock to each process
\* that waits for it, in its turn.
PolicySpec ==
    /\ PolicyInit
    /\ [][PolicyNext]_allVars
    /\ \A p \in Writers :
          /\ WF_allVars(GoOn(p))
          /\ SF_allVars(Lock(p) /\ Unlogged /\ UNCHANGED serviceVars)

-----------------------------------------------------------------------------

Requests ==
    [pc : {"none", "checked", "named", "saving", "saved"},
     by : Callers \cup {Unknown}, quota : BOOLEAN,
     actor : Callers \cup {Unknown}, whole : BOOLEAN]

\* While the service saves, exactly one of its requests waits for that, and
\* none does while it does not; it serves none while it is down.
PolicyTypeOK ==
    /\ TypeOK
    /\ signing \subseteq Browsers
    /\ session \in [Browsers -> {"none", "admin", "over"}]
    /\ asked \in [Handlers -> Requests]
    /\ trail \in [actor : Callers \cup {Unknown}, by : Callers \cup {Unknown},
                  whole : BOOLEAN]
    /\ \A h \in Handlers :
          /\ asked[h].pc # "none" => Up /\ asked[h].by \in Callers
          /\ asked[h].pc = "saving" => pc[Policy] \in Saving
    /\ \A h, i \in Handlers :
          asked[h].pc = "saving" /\ asked[i].pc = "saving" => h = i
    /\ pc[Policy] \in Saving => \E h \in Handlers : asked[h].pc = "saving"

\* A change is put down to the administrator who asked for it and to nobody
\* else, or to nobody at all, but that only if the caller's session ended since
\* the request was let in (policy.go:130-135, 163-179).
ChangeIsAttributed ==
    [][trail'.actor = trail'.by \/ (trail'.actor = Unknown /\ ~trail'.whole)]_trail
=============================================================================
