-------------------------- MODULE TwoFactorHistory --------------------------
(***************************************************************************)
(* TwoFactor with history variables: what a property has to remember of    *)
(* the past.  They follow its steps and never restrict them.               *)
(***************************************************************************)
EXTENDS TwoFactor

VARIABLES
    inForce,    \* the list that was given to the user last, 0 when switched off
    accepted,   \* the codes of that list accepted so far
    clashed,    \* a mark overwrote a list it had not read, since the last one was written
    spent,      \* the steps accepted since it was switched on or off
    outdated,   \* attempts in flight that read the row before it was switched on or off
    earned,     \* trusted devices for which a factor of the present enrolment was shown
    astray,     \* trusted devices that an outdated attempt remembered
    kept        \* trusted devices of an enrolment that ended or was replaced

factorHistory == <<inForce, accepted, clashed, spent, outdated, earned, astray, kept>>

FactorHistoryInit ==
    /\ inForce = 0
    /\ accepted = {}
    /\ clashed = FALSE
    /\ spent = {}
    /\ outdated = {}
    /\ earned = {}
    /\ astray = {}
    /\ kept = {}

-----------------------------------------------------------------------------

Enrols(a) == \E m \in Window : WriteSetup(a, m)

Enrolling == \E a \in Attempts : Enrols(a)

Disabling == \E a \in Attempts : WriteDisable(a)

Renewing == \E a \in Attempts : WriteCodes(a)

Removing == \E a \in Attempts : RemoveDevices(a)

\* Its write-back brings other changes than its own.
Clashes(a) == MarkCode(a) /\ attempt[a].list # unused

\* Devices that one of them newly remembers with this step.
RememberedBy(them) == {d \in trusted' \ trusted : \E a \in them : Remember(a, d)}

FactorRecord ==
    /\ inForce' = CASE Enrolling \/ Renewing -> lists'
                    [] Disabling             -> 0
                    [] OTHER                 -> inForce
    /\ accepted' = (accepted \cup {attempt[a].code : a \in {b \in Attempts : MarkCode(b)}})
                        \cap List(inForce')
    /\ clashed' = /\ ~(Enrolling \/ Renewing \/ Disabling)
                  /\ clashed \/ \E a \in Attempts : Clashes(a)
    /\ spent' = CASE Enrolling -> {lastTotpStep'}
                  [] Disabling -> {}
                  [] OTHER     -> spent \cup
                                    {attempt[a].step : a \in {b \in Attempts : ConsumeStep(b)}}
    /\ outdated' = {a \in IF Enrolling \/ Disabling THEN Attempts ELSE outdated :
                        attempt'[a] # Waiting}
    /\ earned' = IF Enrolling \/ Disabling THEN {}
                 ELSE (earned \cup RememberedBy(Attempts \ outdated)) \cap trusted'
    /\ astray' = (astray \cup RememberedBy(outdated)) \cap trusted'
    /\ kept' = CASE Removing -> {}
                 [] Disabling \/ (Enrolling /\ enabled) -> trusted
                 [] OTHER -> kept \cap trusted'

FactorHistorySpec ==
    FactorInit /\ FactorHistoryInit /\ [][FactorNext /\ FactorRecord]_<<factorVars, factorHistory>>

-----------------------------------------------------------------------------
(* The inductive invariant behind the properties below, in named parts.    *)

CodesUpTo(n) == (1 .. n) \X (1 .. ListSize)

AttemptPcs == {"idle", "step", "code", "verified", "setup", "disable", "regenerate", "devices"}

AttemptType == [pc : AttemptPcs, step : Nat \cup {NoStep}, code : Nat \X Nat,
             list : SUBSET CodesUpTo(MaxLists)]

FactorTypeOK ==
    /\ enabled \in BOOLEAN
    /\ lists \in 0 .. MaxLists
    /\ unused \subseteq CodesUpTo(lists)
    /\ lastTotpStep \in Nat \cup {NoStep}
    /\ trusted \subseteq Devices
    /\ attempt \in [Attempts -> AttemptType]
    /\ clock \in Nat /\ clock >= 1
    /\ inForce \in 0 .. lists
    /\ accepted \subseteq List(inForce)
    /\ clashed \in BOOLEAN
    /\ spent \subseteq Nat
    /\ outdated \subseteq Attempts
    /\ earned \subseteq trusted /\ astray \subseteq trusted /\ kept \subseteq trusted

\* What an attempt has read: its lists are of codes generated already, and, unless it is
\* outdated, the account is as it found it.
AttemptInv ==
    \A a \in Attempts :
        /\ attempt[a].list \subseteq CodesUpTo(lists)
        /\ attempt[a].pc = "step" => attempt[a].step # NoStep
        /\ attempt[a].pc = "code" => attempt[a].code \in attempt[a].list
        /\ a \notin outdated =>
            /\ attempt[a].pc \in {"step", "code", "verified", "disable", "regenerate"} => enabled
            /\ attempt[a].pc = "setup" => ~enabled

\* The codes of the list that was given to the user last and not accepted yet.
Valid == IF inForce = 0 THEN {} ELSE List(inForce) \ accepted

\* "Marked used": as long as no write-back met another write, the row lists exactly
\* the codes that the user was given last and has not used.
ListIsTrue == clashed \/ unused = Valid

\* While it is switched on, lastTotpStep is no less than any step accepted.
StepInv == enabled => \A m \in spent : m <= lastTotpStep

\* "Leaving them would retain a bypass if the victim later re-enables": a device
\* skips the second factor only if one was shown for it since two-factor
\* authentication was switched on, unless its login had verified a factor of an
\* earlier enrolment and was overtaken, or it was trusted before and its removal
\* has yet to come or failed, or two setups met.
DevicesAreEarned == enabled => trusted \subseteq earned \cup astray \cup kept

\* While it is switched off, no other device is left.
NoneLeft == ~enabled => trusted \subseteq astray \cup kept

FactorInv ==
    /\ FactorTypeOK
    /\ AttemptInv
    /\ ListIsTrue
    /\ StepInv
    /\ DevicesAreEarned
    /\ NoneLeft

-----------------------------------------------------------------------------
(* Properties                                                              *)

\* "A captured code cannot be reused": a TOTP step is accepted once while two-factor
\* authentication stays switched on, the step used at setup included, however
\* requests overlap; and a backup code is accepted once, and only while it is on the
\* list given out last, unless that list was written to between the read and the
\* write-back of this attempt or, since it was generated, of another.
FactorsWorkOnce ==
    [][\A a \in Attempts :
        /\ ConsumeStep(a) => attempt[a].step \notin spent \/ a \in outdated
        /\ MarkCode(a) => attempt[a].code \in Valid \/ clashed \/ Clashes(a)
      ]_<<factorVars, factorHistory>>

=============================================================================
