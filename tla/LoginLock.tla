----------------------------- MODULE LoginLock -----------------------------
(***************************************************************************)
(* The firewall and the login, as one address sees them: requests pass the *)
(* middleware, wrong passwords are counted, too many lock the address and  *)
(* put it on the block list, and an administrator unblocks or trusts it    *)
(* (firewall.service.ts, firewall.middleware.ts, auth.controller.ts).      *)
(* Addresses share no rows.                                                *)
(***************************************************************************)
EXTENDS Naturals

CONSTANTS
    Handlers,       \* requests of the address in progress
    Administrators, \* requests of administrators in progress
    MaxAttempts,    \* largest loginMaxAttempts
    MaxCrashes      \* process deaths (bound)

VARIABLES
    attempt,        \* the row of firewall_login_attempts
    block,          \* the source of the active row of firewall_blocks, or "none"
    trusted,        \* there is a row of firewall_whitelist
    loginMaxAttempts,
    wrong,          \* history: wrong passwords since the failures were last forgiven
    most,           \* history: the largest loginMaxAttempts since then
    crashes,
    call

vars == <<attempt, block, trusted, loginMaxAttempts, wrong, most, crashes, call>>

Limits == 1..MaxAttempts
Cap == MaxAttempts + MaxCrashes + 1
Sources == {"manual", "auto_scan", "auto_login", "honeypot"}
\* lockedUntil: null, in the future or in the past
Attempt == [known: BOOLEAN, failures: 0..Cap, lockedUntil: {"null", "future", "past"}]
NoAttempt == [known |-> FALSE, failures |-> 0, lockedUntil |-> "null"]
\* What classifyIntent makes of a path, and lookupGeo of an address.
Intents == {"login_attempt", "malicious_scan", "honeypot", "api_access"}
Countries == {"IN", "other", "unknown"}

IdleCall == [pc |-> "idle"]
Goto(h, c) == call' = [call EXCEPT ![h] = c]
At(h, pc) == call[h].pc = pc
Idle(h) == At(h, "idle")
Upper(a, b) == IF a > b THEN a ELSE b

TypeOK ==
    /\ attempt \in Attempt
    /\ block \in Sources \cup {"none"}
    /\ trusted \in BOOLEAN
    /\ loginMaxAttempts \in Limits
    /\ wrong \in 0..Cap
    /\ most \in Limits
    /\ crashes \in 0..MaxCrashes

Init ==
    /\ attempt = NoAttempt
    /\ block = "none"
    /\ trusted = FALSE
    /\ loginMaxAttempts \in Limits
    /\ wrong = 0
    /\ most = loginMaxAttempts
    /\ crashes = 0
    /\ call = [h \in Handlers \cup Administrators |-> IdleCall]

history == <<wrong, most>>
Forgive == wrong' = 0 /\ most' = loginMaxAttempts

-----------------------------------------------------------------------------
\* The middleware.  A trusted address goes straight to its handler; only the
\* login's handler changes anything here.
Admitted(intent) == IF intent = "login_attempt" THEN [pc |-> "login"] ELSE IdleCall

evaluateRequest(h, intent, country) ==
    /\ h \in Handlers
    /\ Idle(h)
    /\ Goto(h, IF trusted THEN Admitted(intent)
                          ELSE [pc |-> "findBlock", intent |-> intent, country |-> country])
    /\ UNCHANGED <<attempt, block, trusted, loginMaxAttempts, history, crashes>>

\* A scanner's block is lifted for an Indian address; a scan from abroad is
\* blocked, unless the rules on countries have refused it already.
isIpBlocked(h) ==
    /\ At(h, "findBlock")
    /\ LET c == call[h] IN
       \/ /\ block # "none"
          /\ Goto(h, IF c.country = "IN" /\ block = "auto_scan"
                     THEN [pc |-> "unblock", then |-> Admitted(c.intent)] ELSE IdleCall)
       \/ /\ block = "none"
          /\ CASE c.intent = "honeypot" -> Goto(h, [pc |-> "block", source |-> "honeypot"])
               [] c.intent = "login_attempt" -> Goto(h, [pc |-> "isLocked"])
               [] c.intent = "malicious_scan" /\ c.country # "IN" ->
                    Goto(h, IdleCall) \/ Goto(h, [pc |-> "block", source |-> "auto_scan"])
               [] OTHER -> Goto(h, IdleCall)
    /\ UNCHANGED <<attempt, block, trusted, loginMaxAttempts, history, crashes>>

blockIp(h) ==
    /\ At(h, "block")
    /\ block' = call[h].source
    /\ Goto(h, IdleCall)
    /\ UNCHANGED <<attempt, trusted, loginMaxAttempts, history, crashes>>

unblockIp(h) ==
    /\ At(h, "unblock")
    /\ block' = "none"
    /\ Goto(h, [call[h] EXCEPT !.pc = "forget"])
    /\ UNCHANGED <<attempt, trusted, loginMaxAttempts, history, crashes>>

forgetAttempts(h) ==
    /\ At(h, "forget")
    /\ attempt' = NoAttempt
    /\ Forgive
    /\ Goto(h, call[h].then)
    /\ UNCHANGED <<block, trusted, loginMaxAttempts, crashes>>

-----------------------------------------------------------------------------
\* The lock is asked for twice: by the middleware, then by the login.
Past(h) == IF At(h, "isLocked") THEN [pc |-> "login"] ELSE [pc |-> "verify"]

isLoginLocked(h) ==
    /\ call[h].pc \in {"isLocked", "login"}
    /\ Goto(h, CASE attempt.lockedUntil = "null" -> Past(h)
                 [] attempt.lockedUntil = "future" -> IdleCall
                 [] attempt.lockedUntil = "past" -> [pc |-> "reset", then |-> Past(h)])
    /\ UNCHANGED <<attempt, block, trusted, loginMaxAttempts, history, crashes>>

\* A lock that has passed is taken off, whatever the row holds by now.
resetFailures(h) ==
    /\ At(h, "reset")
    /\ attempt' = [attempt EXCEPT !.failures = 0, !.lockedUntil = "null"]
    /\ Goto(h, call[h].then)
    /\ UNCHANGED <<block, trusted, loginMaxAttempts, wrong, most, crashes>>

wrongPassword(h) ==
    /\ At(h, "verify")
    /\ wrong < Cap
    /\ wrong' = wrong + 1
    /\ Goto(h, [pc |-> "failed"])
    /\ UNCHANGED <<attempt, block, trusted, loginMaxAttempts, most, crashes>>

\* The right password; a disabled account is told so and nothing is counted.
rightPassword(h) ==
    /\ At(h, "verify")
    /\ Goto(h, IdleCall) \/ Goto(h, [pc |-> "clear"])
    /\ UNCHANGED <<attempt, block, trusted, loginMaxAttempts, history, crashes>>

clearLoginFailures(h) ==
    /\ At(h, "clear")
    /\ attempt' = NoAttempt
    /\ Forgive
    /\ Goto(h, IdleCall)
    /\ UNCHANGED <<block, trusted, loginMaxAttempts, crashes>>

recordLoginFailure(h) ==
    /\ At(h, "failed")
    /\ Goto(h, [pc |-> "count", maxAttempts |-> loginMaxAttempts])
    /\ UNCHANGED <<attempt, block, trusted, loginMaxAttempts, history, crashes>>

CountedUpTo(h, full) ==
    /\ At(h, "count")
    /\ attempt.failures < Cap
    /\ attempt' = [attempt EXCEPT !.known = TRUE, !.failures = @ + 1]
    /\ Goto(h, IF full THEN [pc |-> "lock"] ELSE IdleCall)
    /\ UNCHANGED <<block, trusted, loginMaxAttempts, history, crashes>>
\* Mutant: more than the maximum, not as many.
countFailureMutant(h) == CountedUpTo(h, attempt.failures + 1 > call[h].maxAttempts)
countFailure(h) == CountedUpTo(h, attempt.failures + 1 >= call[h].maxAttempts)

lockAddress(h) ==
    /\ At(h, "lock")
    /\ attempt' = IF attempt.known THEN [attempt EXCEPT !.lockedUntil = "future"] ELSE attempt
    /\ Goto(h, [pc |-> "block", source |-> "auto_login"])
    /\ UNCHANGED <<block, trusted, loginMaxAttempts, history, crashes>>

\* loginLockoutMinutes have passed.
LockPasses ==
    /\ attempt.lockedUntil = "future"
    /\ attempt' = [attempt EXCEPT !.lockedUntil = "past"]
    /\ Forgive
    /\ UNCHANGED <<block, trusted, loginMaxAttempts, crashes, call>>

-----------------------------------------------------------------------------
\* The administrator, from another address.
blockByHand ==
    /\ block' = "manual"
    /\ UNCHANGED <<attempt, trusted, loginMaxAttempts, history, crashes, call>>

unblockByHand(h) ==
    /\ h \in Administrators
    /\ Idle(h)
    /\ Goto(h, [pc |-> "unblock", then |-> IdleCall])
    /\ UNCHANGED <<attempt, block, trusted, loginMaxAttempts, history, crashes>>

addWhitelist(h) ==
    /\ h \in Administrators
    /\ Idle(h)
    /\ trusted' = TRUE
    /\ Goto(h, [pc |-> "unblock", then |-> IdleCall])
    /\ UNCHANGED <<attempt, block, loginMaxAttempts, history, crashes>>

removeWhitelist ==
    /\ trusted' = FALSE
    /\ UNCHANGED <<attempt, block, loginMaxAttempts, history, crashes, call>>

updateSettings(limit) ==
    /\ loginMaxAttempts' = limit
    /\ most' = Upper(most, limit)
    /\ UNCHANGED <<attempt, block, trusted, wrong, crashes, call>>

Crash ==
    /\ crashes < MaxCrashes
    /\ crashes' = crashes + 1
    /\ call' = [h \in Handlers \cup Administrators |-> IdleCall]
    /\ UNCHANGED <<attempt, block, trusted, loginMaxAttempts, history>>

Handle(h) ==
    \/ \E intent \in Intents, country \in Countries : evaluateRequest(h, intent, country)
    \/ isIpBlocked(h) \/ blockIp(h) \/ unblockIp(h) \/ forgetAttempts(h)
    \/ isLoginLocked(h) \/ resetFailures(h)
    \/ wrongPassword(h) \/ rightPassword(h) \/ clearLoginFailures(h)
    \/ recordLoginFailure(h) \/ countFailure(h) \/ lockAddress(h)
    \/ unblockByHand(h) \/ addWhitelist(h)

Next ==
    \/ \E h \in Handlers \cup Administrators : Handle(h)
    \/ LockPasses
    \/ blockByHand \/ removeWhitelist
    \/ \E limit \in Limits : updateSettings(limit)
    \/ Crash

Spec == Init /\ [][Next]_vars

-----------------------------------------------------------------------------
\* An address is told right from wrong for at most loginMaxAttempts wrong
\* passwords, trusted or not, until the lock passes, somebody signs in or an
\* administrator unblocks it (recordLoginFailure and isLoginLocked); a failure
\* that a crash left uncounted comes on top.  Its requests come one at a time.
GuessesAreBounded == wrong <= most + crashes
=============================================================================
