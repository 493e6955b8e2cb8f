---------------------------- MODULE AdminAccess ----------------------------
(***************************************************************************)
(* An administrator's account and what signs in with it: sessions of the   *)
(* browser and of the browser extension, password changes and resets, and  *)
(* the other administrators who restrict, move or delete the account       *)
(* (auth.controller.ts, admins.controller.ts, sessions.service.ts,         *)
(* smart-capture.service.ts).  Roles are carried to sessions as locations  *)
(* are.  The account is one of the default tenant, the only one whose      *)
(* extension can be connected: codes and the extension's sessions carry    *)
(* that tenant whoever asks for them, and redeeming a code looks for both  *)
(* the code and its account under one tenant.                              *)
(***************************************************************************)
EXTENDS Naturals

CONSTANTS
    Handlers,       \* requests in progress
    Sessions,       \* session tokens (bound)
    Codes,          \* connection codes of the extension (bound)
    MaxPasswords    \* passwords set after the first (bound)

VARIABLES
    account,        \* the row of admins
    session,        \* the sessions of that user name, or NoSession
    code,           \* extension_connection_codes
    mixed,          \* history: an update overlapped another change, or named the user in capitals
    cut,            \* history: a crash, the upgrade of an old password, or a reset asked for
                    \* under another tenant's address, has undone a change
    call

vars == <<account, session, code, mixed, cut, call>>

Locations == {"all", "north"}       \* "all": the empty list
Admin == [known: BOOLEAN, password: 0..MaxPasswords, hashed: BOOLEAN, locations: Locations,
          disabled: BOOLEAN, passwordReset: BOOLEAN]
NoSession == [live |-> FALSE]
\* history of a session: the password of the account as its maker found it,
\* whether that had changed, or the account gone, by the time the session was
\* made, and whether it was made with locations the account no longer had
Session == [live: {TRUE}, locations: Locations, password: 0..MaxPasswords,
            late: BOOLEAN, old: BOOLEAN]
ConnectionCode == [status: {"none", "open", "used"}, locations: Locations]

IdleCall == [pc |-> "idle"]
Goto(h, c) == call' = [call EXCEPT ![h] = c]
At(h, pc) == call[h].pc = pc
Idle(h) == At(h, "idle")
Live == {s \in Sessions : session[s].live}
Changing == {h \in Handlers : call[h].pc \in {"sync", "clear", "destroy"}}

TypeOK ==
    /\ account \in Admin
    /\ session \in [Sessions -> Session \cup {NoSession}]
    /\ code \in [Codes -> ConnectionCode]
    /\ mixed \in BOOLEAN
    /\ cut \in BOOLEAN

Init ==
    /\ account \in [known: {TRUE}, password: {0}, hashed: BOOLEAN, locations: Locations,
                    disabled: {FALSE}, passwordReset: {FALSE}]
    /\ session = [s \in Sessions |-> NoSession]
    /\ code = [c \in Codes |-> [status |-> "none", locations |-> "all"]]
    /\ mixed = FALSE
    /\ cut = FALSE
    /\ call = [h \in Handlers |-> IdleCall]

-----------------------------------------------------------------------------
\* The account is found, the password is right, and access is not disabled.
login(h) ==
    /\ Idle(h)
    /\ account.known /\ ~account.disabled
    /\ Goto(h, [pc |-> IF account.hashed THEN "session" ELSE "upgrade",
                password |-> account.password, locations |-> account.locations])
    /\ UNCHANGED <<account, session, code, mixed, cut>>

\* A password stored as text is stored again as a hash: the one just typed.
upgradePassword(h) ==
    /\ At(h, "upgrade")
    /\ account' = IF account.known THEN [account EXCEPT !.password = call[h].password, !.hashed = TRUE]
                                   ELSE account
    /\ Goto(h, [call[h] EXCEPT !.pc = "session"])
    /\ cut' = (cut \/ account.password # call[h].password)
    /\ UNCHANGED <<session, code, mixed>>

NewSession(s, password, locations) ==
    /\ s \in Sessions \ Live
    /\ session' = [session EXCEPT ![s] =
                     [live |-> TRUE, locations |-> locations, password |-> password,
                      late |-> ~account.known \/ account.password # password,
                      old |-> account.locations # locations]]

createSession(h, s) ==
    /\ At(h, "session")
    /\ NewSession(s, call[h].password, call[h].locations)
    /\ Goto(h, IdleCall)
    /\ UNCHANGED <<account, code, mixed, cut>>

\* Signed out, or expired: the database drops expired sessions.
destroySession(s) ==
    /\ s \in Live
    /\ session' = [session EXCEPT ![s] = NoSession]
    /\ UNCHANGED <<account, code, mixed, cut, call>>

-----------------------------------------------------------------------------
\* The extension: a code for the user who is signed in replaces the open ones.
\* No change of password, and no deletion, closes a code.
createConnectionCode(h, s) ==
    /\ Idle(h)
    /\ s \in Live
    /\ code' = [c \in Codes |-> IF code[c].status = "open" THEN [code[c] EXCEPT !.status = "used"]
                                                           ELSE code[c]]
    /\ Goto(h, [pc |-> "code", locations |-> session[s].locations])
    /\ UNCHANGED <<account, session, mixed, cut>>

insertCode(h, c) ==
    /\ At(h, "code")
    /\ code[c].status = "none"
    /\ code' = [code EXCEPT ![c] = [status |-> "open", locations |-> call[h].locations]]
    /\ Goto(h, IdleCall)
    /\ UNCHANGED <<account, session, mixed, cut>>

redeemConnectionCode(h, c) ==
    /\ Idle(h)
    /\ code[c].status = "open"
    /\ Goto(h, [pc |-> "redeem", c |-> c])
    /\ UNCHANGED <<account, session, code, mixed, cut>>

\* The account must be there and not disabled; its password is not asked for.
findCreator(h) ==
    /\ At(h, "redeem")
    /\ LET k == code[call[h].c]
       IN Goto(h, IF account.known /\ ~account.disabled
                  THEN [pc |-> "join", c |-> call[h].c, password |-> account.password,
                        locations |-> IF k.locations = "all" THEN account.locations ELSE k.locations]
                  ELSE IdleCall)
    /\ UNCHANGED <<account, session, code, mixed, cut>>

createExtensionSession(h, s) ==
    /\ At(h, "join")
    /\ LET c == call[h] IN
       /\ NewSession(s, c.password, c.locations)
       /\ Goto(h, [pc |-> "used", c |-> c.c])
    /\ UNCHANGED <<account, code, mixed, cut>>

saveUsed(h) ==
    /\ At(h, "used")
    /\ code' = [code EXCEPT ![call[h].c].status = "used"]
    /\ Goto(h, IdleCall)
    /\ UNCHANGED <<account, session, mixed, cut>>

-----------------------------------------------------------------------------
\* Other administrators.  `capitals`: they type the name in another case, which
\* finds the account and none of its sessions.  Locations are given or kept.
Overlaps == \E g \in Handlers : At(g, "sync")

update(h, to, disabled, capitals) ==
    /\ Idle(h)
    /\ account.known
    /\ IF to = "kept"
       THEN account' = [account EXCEPT !.disabled = disabled] /\ UNCHANGED <<mixed, call>>
       ELSE /\ account' = [account EXCEPT !.locations = to, !.disabled = disabled]
            /\ Goto(h, [pc |-> "sync", to |-> to, capitals |-> capitals])
            /\ mixed' = (mixed \/ capitals \/ Overlaps)
    /\ UNCHANGED <<session, code, cut>>

syncAdminLocations(h) ==
    /\ At(h, "sync")
    /\ session' = IF call[h].capitals THEN session
                  ELSE [s \in Sessions |->
                          IF s \in Live
                          THEN [session[s] EXCEPT !.locations = call[h].to, !.old = FALSE]
                          ELSE session[s]]
    /\ Goto(h, IdleCall)
    /\ UNCHANGED <<account, code, mixed, cut>>

remove(h) ==
    /\ Idle(h)
    /\ account.known
    /\ account' = [account EXCEPT !.known = FALSE, !.passwordReset = FALSE]
    /\ Goto(h, [pc |-> "destroy", elsewhere |-> FALSE])
    /\ mixed' = (mixed \/ Overlaps)
    /\ UNCHANGED <<session, code, cut>>

\* Invited again, under the same name.
invite(to) ==
    /\ ~account.known
    /\ account.password < MaxPasswords
    /\ account' = [known |-> TRUE, password |-> account.password + 1, hashed |-> TRUE, locations |-> to,
                   disabled |-> FALSE, passwordReset |-> FALSE]
    /\ mixed' = (mixed \/ Overlaps)
    /\ UNCHANGED <<session, code, cut, call>>

-----------------------------------------------------------------------------
\* Passwords: changed by oneself or a super administrator, or with the code
\* sent to oneself.  A reset finds the account wherever it is asked for;
\* `elsewhere` is the address of another tenant.
forgotPassword ==
    /\ account.known /\ ~account.disabled
    /\ account' = [account EXCEPT !.passwordReset = TRUE]
    /\ UNCHANGED <<session, code, mixed, cut, call>>

resetPassword(h) ==
    /\ Idle(h)
    /\ account.known /\ ~account.disabled /\ account.passwordReset
    /\ \E expired, elsewhere \in BOOLEAN :
         Goto(h, [pc |-> IF expired THEN "expired" ELSE "set", reset |-> TRUE,
                  elsewhere |-> elsewhere])
    /\ UNCHANGED <<account, session, code, mixed, cut>>

changePassword(h) ==
    /\ Idle(h)
    /\ account.known
    /\ Goto(h, [pc |-> "set", reset |-> FALSE, elsewhere |-> FALSE])
    /\ UNCHANGED <<account, session, code, mixed, cut>>

\* A row that has gone is not written; the request goes on.
setPassword(h) ==
    /\ At(h, "set")
    /\ account.password < MaxPasswords
    /\ account' = IF account.known THEN [account EXCEPT !.password = @ + 1, !.hashed = TRUE] ELSE account
    /\ Goto(h, [pc |-> IF call[h].reset THEN "clear" ELSE "destroy",
                elsewhere |-> call[h].elsewhere])
    /\ UNCHANGED <<session, code, mixed, cut>>

\* Mutant: a reset leaves the sessions alone.
clearPasswordResetMutant(h) ==
    /\ call[h].pc \in {"clear", "expired"}
    /\ account' = [account EXCEPT !.passwordReset = FALSE]
    /\ Goto(h, IdleCall)
    /\ UNCHANGED <<session, code, mixed, cut>>
clearPasswordReset(h) ==
    /\ call[h].pc \in {"clear", "expired"}
    /\ account' = [account EXCEPT !.passwordReset = FALSE]
    /\ Goto(h, IF At(h, "clear") THEN [pc |-> "destroy", elsewhere |-> call[h].elsewhere]
                                 ELSE IdleCall)
    /\ UNCHANGED <<session, code, mixed, cut>>

\* The deletion reaches the sessions of the tenant the request was made under.
destroyAllForUser(h) ==
    /\ At(h, "destroy")
    /\ session' = IF call[h].elsewhere THEN session ELSE [s \in Sessions |-> NoSession]
    /\ cut' = (cut \/ call[h].elsewhere)
    /\ Goto(h, IdleCall)
    /\ UNCHANGED <<account, code, mixed>>

\* The process dies, as often as it likes.
Crash ==
    /\ cut' = (cut \/ \E h \in Handlers : call[h].pc \in {"sync", "clear", "destroy", "used"})
    /\ call' = [h \in Handlers |-> IdleCall]
    /\ UNCHANGED <<account, session, code, mixed>>

Handle(h) ==
    \/ login(h) \/ upgradePassword(h) \/ findCreator(h) \/ saveUsed(h)
    \/ syncAdminLocations(h) \/ remove(h)
    \/ resetPassword(h) \/ changePassword(h) \/ setPassword(h) \/ clearPasswordReset(h)
    \/ destroyAllForUser(h)
    \/ \E s \in Sessions : createSession(h, s) \/ createConnectionCode(h, s) \/ createExtensionSession(h, s)
    \/ \E c \in Codes : insertCode(h, c) \/ redeemConnectionCode(h, c)
    \/ \E to \in Locations \cup {"kept"}, disabled, capitals \in BOOLEAN : update(h, to, disabled, capitals)

\* What happens after a change was undone is not followed (bound).
Next ==
    /\ ~cut
    /\ \/ \E h \in Handlers : Handle(h)
       \/ \E s \in Sessions : destroySession(s)
       \/ \E to \in Locations : invite(to)
       \/ forgotPassword
       \/ Crash

Spec == Init /\ [][Next]_vars

-----------------------------------------------------------------------------
\* Once a password is changed or reset, or the account deleted, no session
\* goes on that was opened before, by the browser or the extension
\* (admins.controller.ts, remove and changePassword; auth.controller.ts,
\* resetPassword); and sessions see the locations the account has (update).
\* A session is opened when its maker finds the account: redeeming a code asks
\* for no password, so that one made before the change and redeemed after it
\* opens a new session.  Left out are a session whose maker found the account
\* before the change and made it after (`late`), the locations of one made with
\* those of an older code or before an update that overlapped (`old`, until the
\* next update), updates that overlap, and a reset asked for elsewhere (`cut`).
SessionsAreCurrent ==
    \/ cut
    \/ Changing # {}
    \/ \A s \in Live :
         session[s].late \/ /\ account.known
                            /\ session[s].password = account.password
                            /\ mixed \/ session[s].old \/ session[s].locations = account.locations

\* One call at a time leaves no session out that was opened before the change.
NoneIsLate == \A s \in Live : ~session[s].late
=============================================================================
