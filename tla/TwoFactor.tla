----------------------------- MODULE TwoFactor -----------------------------
(***************************************************************************)
(* The second factor of one account: the TOTP steps and the backup codes   *)
(* (two-factor/service.ts), and the devices that may skip it               *)
(* (auth/trusted-device.service.ts, auth/service.ts).                      *)
(*                                                                         *)
(* Every operation reads the row, checks what it read, and writes by id;   *)
(* a check against a password is awaited in between.  An attempt that is   *)
(* refused changes nothing and is left out until its read has been passed. *)
(* A backup code that is marked used is never looked at again, so a list   *)
(* is the set of its unused codes.  Names differ from those of Accounts,   *)
(* so that one instance can hold both.                                     *)
(***************************************************************************)
EXTENDS Integers

CONSTANTS
    Attempts,   \* requests in flight
    Devices,    \* browsers with a device secret
    ListSize,   \* backup codes on a list
    MaxLists,   \* bound: lists generated
    MaxClock    \* bound: the last TOTP step that is the current one

ASSUME FactorAssumption == ListSize \in Nat /\ MaxLists \in Nat /\ MaxClock \in Nat

\* lastTotpStep is null.
NoStep == -1

\* Codes are random and never repeat: a code is its list and its place there.
List(n) == {n} \X (1 .. ListSize)

VARIABLES
    enabled,      \* twoFactorEnabled, with a secret
    unused,       \* twoFactorBackupCodes: those not used, {} for null
    lastTotpStep,
    trusted,      \* the rows of TrustedDevice that have not expired
    attempt,      \* the requests
    lists,        \* lists generated so far
    clock         \* currentStep()

factorVars == <<enabled, unused, lastTotpStep, trusted, attempt, lists, clock>>

-----------------------------------------------------------------------------

\* A request: the step or code it presents, and what it read of the row.
Waiting == [pc |-> "idle", step |-> NoStep, code |-> <<0, 0>>, list |-> {}]

FactorInit ==
    /\ enabled = FALSE
    /\ unused = {}
    /\ lastTotpStep = NoStep
    /\ trusted = {}
    /\ attempt = [a \in Attempts |-> Waiting]
    /\ lists = 0
    /\ clock = 1

\* TOTP_WINDOW
Window == (clock - 1) .. (clock + 1)

\* What comes next needs nothing that was read or presented.
Proceed(a, pc) == attempt' = [attempt EXCEPT ![a] = [Waiting EXCEPT !.pc = pc]]

Finish(a) == attempt' = [attempt EXCEPT ![a] = Waiting]

NewList ==
    /\ lists < MaxLists
    /\ lists' = lists + 1
    /\ unused' = List(lists')

-----------------------------------------------------------------------------
(* verifyToken, of a login or of POST /2fa/verify.                         *)

\* It reads the row, and the code matches a step that has not been used ...
MatchStep(a, m) ==
    /\ attempt[a] = Waiting
    /\ enabled
    /\ m \in Window /\ m > lastTotpStep
    /\ attempt' = [attempt EXCEPT ![a] = [Waiting EXCEPT !.pc = "step", !.step = m]]
    /\ UNCHANGED <<enabled, unused, lastTotpStep, trusted, lists, clock>>

\* ... or an unused backup code.
MatchCode(a, c) ==
    /\ attempt[a] = Waiting
    /\ enabled
    /\ c \in unused
    /\ attempt' = [attempt EXCEPT ![a] = [Waiting EXCEPT !.pc = "code", !.code = c,
                                                         !.list = unused]]
    /\ UNCHANGED <<enabled, unused, lastTotpStep, trusted, lists, clock>>

\* Mutant: the step is written by id.
FresherAnyway(m) == TRUE

\* The conditional update of lastTotpStep.
Fresher(m) == lastTotpStep = NoStep \/ lastTotpStep < m

ConsumeStep(a) ==
    /\ attempt[a].pc = "step"
    /\ Fresher(attempt[a].step)
    /\ lastTotpStep' = attempt[a].step
    /\ Proceed(a, "verified")
    /\ UNCHANGED <<enabled, unused, trusted, lists, clock>>

\* The list is written back as it was read, without the code.
MarkCode(a) ==
    /\ attempt[a].pc = "code"
    /\ unused' = attempt[a].list \ {attempt[a].code}
    /\ Proceed(a, "verified")
    /\ UNCHANGED <<enabled, lastTotpStep, trusted, lists, clock>>

\* rememberDevice: addTrustedDevice after the login was recorded.
Remember(a, d) ==
    /\ attempt[a].pc = "verified"
    /\ trusted' = trusted \cup {d}
    /\ Finish(a)
    /\ UNCHANGED <<enabled, unused, lastTotpStep, lists, clock>>

-----------------------------------------------------------------------------
(* Switching it on and off, and new backup codes.                          *)

\* verifySetup reads that it is off ...
StartSetup(a) ==
    /\ attempt[a] = Waiting
    /\ ~enabled
    /\ Proceed(a, "setup")
    /\ UNCHANGED <<enabled, unused, lastTotpStep, trusted, lists, clock>>

\* ... and, after the password, accepts a code of the new secret and uses it up.
WriteSetup(a, m) ==
    /\ attempt[a].pc = "setup"
    /\ m \in Window
    /\ enabled' = TRUE
    /\ NewList
    /\ lastTotpStep' = m
    /\ Finish(a)
    /\ UNCHANGED <<trusted, clock>>

\* disable2FA and generateNewBackupCodes read the row ...
StartChange(a, pc) ==
    /\ attempt[a] = Waiting
    /\ enabled
    /\ attempt' = [attempt EXCEPT ![a] = [Waiting EXCEPT !.pc = pc, !.step = lastTotpStep,
                                                   !.list = unused]]
    /\ UNCHANGED <<enabled, unused, lastTotpStep, trusted, lists, clock>>

\* assertSecondFactor, with what was read before the password: nothing is used up.
PassesGate(a) == attempt[a].list # {} \/ \E m \in Window : m > attempt[a].step

WriteDisable(a) ==
    /\ attempt[a].pc = "disable"
    /\ PassesGate(a)
    /\ enabled' = FALSE
    /\ unused' = {}
    /\ lastTotpStep' = NoStep
    /\ Proceed(a, "devices")
    /\ UNCHANGED <<trusted, lists, clock>>

\* Mutant: the devices stay.
DevicesStay == trusted

DevicesLeft == {}

\* removeAllTrustedDevices, after incrementTokenVersion.
RemoveDevices(a) ==
    /\ attempt[a].pc = "devices"
    /\ trusted' = DevicesLeft
    /\ Finish(a)
    /\ UNCHANGED <<enabled, unused, lastTotpStep, lists, clock>>

WriteCodes(a) ==
    /\ attempt[a].pc = "regenerate"
    /\ PassesGate(a)
    /\ NewList
    /\ Finish(a)
    /\ UNCHANGED <<enabled, lastTotpStep, trusted, clock>>

-----------------------------------------------------------------------------

\* A check or the conditional update refuses, a query throws, the server dies, or
\* a login remembers no device.
Leave(a) ==
    /\ attempt[a] # Waiting
    /\ Finish(a)
    /\ UNCHANGED <<enabled, unused, lastTotpStep, trusted, lists, clock>>

\* removeTrustedDevice, removeAllTrustedDevices of a user or of a password reset,
\* and TRUSTED_DEVICE_TTL_DAYS.
DropDevices(gone) ==
    /\ trusted' = trusted \ gone
    /\ UNCHANGED <<enabled, unused, lastTotpStep, attempt, lists, clock>>

NextStep ==
    /\ clock < MaxClock
    /\ clock' = clock + 1
    /\ UNCHANGED <<enabled, unused, lastTotpStep, trusted, attempt, lists>>

AttemptStep(a) ==
    \/ \E m \in Window : MatchStep(a, m)
    \/ \E c \in unused : MatchCode(a, c)
    \/ ConsumeStep(a) \/ MarkCode(a)
    \/ \E d \in Devices : Remember(a, d)
    \/ StartSetup(a) \/ \E m \in Window : WriteSetup(a, m)
    \/ \E pc \in {"disable", "regenerate"} : StartChange(a, pc)
    \/ WriteDisable(a) \/ RemoveDevices(a) \/ WriteCodes(a)
    \/ Leave(a)

FactorNext ==
    \/ \E a \in Attempts : AttemptStep(a)
    \/ \E gone \in SUBSET trusted : DropDevices(gone)
    \/ NextStep

FactorSpec == FactorInit /\ [][FactorNext]_factorVars
=============================================================================
