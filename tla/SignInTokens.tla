---------------------------- MODULE SignInTokens ----------------------------
(***************************************************************************)
(* The sign-in of one connection whose vendor's refresh tokens are single- *)
(* use (X): every run has its own copy of the credentials, renews them     *)
(* with the vendor when the access token has run out, and writes them back *)
(* beside other runs that do the same, beside people who change the        *)
(* connection's settings, sign in again or disconnect it, and beside       *)
(* answers that are lost, locks that time out and processes that die.      *)
(*                                                                         *)
(* A refresh token is the sign-in it descends from and its place in the    *)
(* chain of renewals.  An access token is what it was issued with, and all *)
(* the code asks of it is whether it has run out.                          *)
(***************************************************************************)
EXTENDS Naturals

CONSTANTS
    Runs,       \* connectors in use: runs, health checks, lists of choices
    Forms,      \* requests that check the credentials and then store them
    MaxSignIns, \* bound: sign-ins of this connection
    MaxRenewals,\* bound: tokens a sign-in gets, its first included
    MaxHours,   \* bound: times the access tokens run out
    MaxFaults   \* bound: answers lost, saves that fail, processes that die

ASSUME SignInAssumption ==
    /\ Runs \cap Forms = {}
    /\ MaxSignIns \in Nat \ {0}
    /\ MaxRenewals \in Nat \ {0}
    /\ MaxHours \in Nat
    /\ MaxFaults \in Nat

Clients == Runs \cup Forms
SignIns == 1..MaxSignIns
Tokens  == SignIns \X (1..MaxRenewals)
None    == <<0, 0>>

VARIABLES
    signIns,  \* the sign-ins there have been
    newest,   \* vendor: sign-in |-> the last token it issued
    token,    \* the record's refreshToken
    fresh,    \* the record's accessToken has not run out
    at,       \* client |-> where it is
    has,      \* client |-> refreshToken in its memory
    inDate,   \* client |-> the access token in its memory has not run out
    used,     \* client |-> the token it renewed, until it is saved
    copy,     \* form |-> the refreshToken it will store
    copyFresh,\* form |-> the access token it will store has not run out
    checking, \* form |-> it has listed its choices and checks the one made
    hours,
    faults,
    lost,     \* ghost: tokens whose replacement never reached the database
    putBack   \* ghost: tokens a form stored when they were spent already

record == <<token, fresh>>
memory == <<at, has, inDate, used>>
forms  == <<copy, copyFresh, checking>>
ghosts == <<lost, putBack>>
vars   == <<signIns, newest, record, memory, forms, hours, faults, ghosts>>

Labels == {"idle", "ready", "renewed", "refused", "again", "failed"}

Init ==
    /\ signIns = 1
    /\ newest = [s \in SignIns |-> 1]
    /\ token = <<1, 1>> /\ fresh = TRUE
    /\ at = [c \in Clients |-> "idle"]
    /\ has = [c \in Clients |-> None]
    /\ inDate = [c \in Clients |-> FALSE]
    /\ used = [c \in Clients |-> None]
    /\ copy = [f \in Forms |-> None]
    /\ copyFresh = [f \in Forms |-> FALSE]
    /\ checking = [f \in Forms |-> FALSE]
    /\ hours = 0
    /\ faults = 0
    /\ lost = {}
    /\ putBack = {}

-----------------------------------------------------------------------------
(* The vendor.                                                              *)

\* A refresh token is taken once: only the last of its chain is.
Takes(t) == t # None /\ t[2] = newest[t[1]]

Next1(t) == <<t[1], t[2] + 1>>

Goto(c, label) == at' = [at EXCEPT ![c] = label]

\* The connector is closed; its memory goes.
Leave(c) ==
    /\ Goto(c, "idle")
    /\ has' = [has EXCEPT ![c] = None]
    /\ inDate' = [inDate EXCEPT ![c] = FALSE]
    /\ used' = [used EXCEPT ![c] = None]

-----------------------------------------------------------------------------
(* A connector and its access_token.                                        *)

\* It is made from the record as it is now.
Open(c) ==
    /\ at[c] = "idle" /\ token # None
    /\ Goto(c, "ready")
    /\ has' = [has EXCEPT ![c] = token]
    /\ inDate' = [inDate EXCEPT ![c] = fresh]
    /\ \/ c \in Runs /\ UNCHANGED forms
       \/ /\ c \in Forms
          /\ copy' = [copy EXCEPT ![c] = token]
          /\ copyFresh' = [copyFresh EXCEPT ![c] = fresh]
          /\ \E settingsOnly \in BOOLEAN : checking' = [checking EXCEPT ![c] = settingsOnly]
    /\ UNCHANGED <<signIns, newest, record, used, hours, faults, ghosts>>

\* An access token that has not run out is used as it is.
Asks(c) == at[c] \in {"ready", "again"} /\ ~inDate[c]

\* _refresh_call and _accept, up to save_rotated.
Renew(c) ==
    /\ Asks(c) /\ Takes(has[c]) /\ has[c][2] < MaxRenewals
    /\ newest' = [newest EXCEPT ![has[c][1]] = @ + 1]
    /\ Goto(c, "renewed")
    /\ used' = [used EXCEPT ![c] = has[c]]
    /\ has' = [has EXCEPT ![c] = Next1(has[c])]
    /\ inDate' = [inDate EXCEPT ![c] = TRUE]
    /\ UNCHANGED <<signIns, record, forms, hours, faults, ghosts>>

\* The vendor renewed it and the answer is lost.
AnswerLost(c) ==
    /\ Asks(c) /\ Takes(has[c]) /\ has[c][2] < MaxRenewals
    /\ faults < MaxFaults /\ faults' = faults + 1
    /\ newest' = [newest EXCEPT ![has[c][1]] = @ + 1]
    /\ lost' = lost \cup {has[c]}
    /\ Goto(c, "failed")
    /\ UNCHANGED <<signIns, record, has, inDate, used, forms, hours, putBack>>

\* The vendor does not take it.
Refused(c) ==
    /\ Asks(c) /\ ~Takes(has[c])
    /\ Goto(c, IF at[c] = "ready" THEN "refused" ELSE "failed")
    /\ UNCHANGED <<signIns, newest, record, has, inDate, used, forms, hours, faults, ghosts>>

\* Mutant: the token found is of use only with an access token in date.
RecoverIfFresh(c) ==
    /\ at[c] = "refused"
    /\ \/ /\ ~fresh \/ token = has[c]
          /\ Goto(c, "failed")
          /\ UNCHANGED <<has, inDate>>
       \/ /\ fresh /\ token # has[c]
          /\ has' = [has EXCEPT ![c] = token]
          /\ inDate' = [inDate EXCEPT ![c] = TRUE]
          /\ Goto(c, "ready")
    /\ UNCHANGED <<signIns, newest, record, used, forms, hours, faults, ghosts>>

\* _recover_rotated: what another worker has stored since, if anything.
Recover(c) ==
    /\ at[c] = "refused"
    /\ \/ /\ token \in {None, has[c]}
          /\ Goto(c, "failed")
          /\ UNCHANGED <<has, inDate>>
       \/ /\ token \notin {None, has[c]}
          /\ has' = [has EXCEPT ![c] = token]
          /\ inDate' = [inDate EXCEPT ![c] = fresh]
          /\ Goto(c, IF fresh THEN "ready" ELSE "again")
    /\ UNCHANGED <<signIns, newest, record, used, forms, hours, faults, ghosts>>

\* Mutants: the access token only is stored; whatever is stored is replaced.
SaveAccess(c) ==
    /\ at[c] = "renewed" /\ Goto(c, "ready")
    /\ fresh' = (fresh \/ token = used[c])
    /\ used' = [used EXCEPT ![c] = None]
    /\ UNCHANGED <<signIns, newest, token, has, inDate, forms, hours, faults, ghosts>>

SaveAnyway(c) ==
    /\ at[c] = "renewed" /\ Goto(c, "ready")
    /\ token' = has[c] /\ fresh' = inDate[c]
    /\ used' = [used EXCEPT ![c] = None]
    /\ UNCHANGED <<signIns, newest, has, inDate, forms, hours, faults, ghosts>>

\* save_rotated, under the row's lock: only over the token that was renewed.
Save(c) ==
    /\ at[c] = "renewed" /\ Goto(c, "ready")
    /\ \/ token = used[c] /\ token' = has[c] /\ fresh' = inDate[c]
       \/ token # used[c] /\ UNCHANGED record
    /\ used' = [used EXCEPT ![c] = None]
    /\ UNCHANGED <<signIns, newest, has, inDate, forms, hours, faults, ghosts>>

\* It waits too long for the lock, or the database fails: logged, not raised.
SaveFails(c) ==
    /\ at[c] = "renewed" /\ Goto(c, "ready")
    /\ faults < MaxFaults /\ faults' = faults + 1
    /\ lost' = lost \cup {used[c]}
    /\ used' = [used EXCEPT ![c] = None]
    /\ UNCHANGED <<signIns, newest, record, has, inDate, forms, hours, putBack>>

\* Its process dies between the vendor's answer and the save.
Die(c) ==
    /\ at[c] = "renewed" /\ Leave(c)
    /\ faults < MaxFaults /\ faults' = faults + 1
    /\ lost' = lost \cup {used[c]}
    /\ UNCHANGED <<signIns, newest, record, forms, hours, putBack>>

\* It is done, or has failed.
Close(c) ==
    /\ at[c] = "failed" \/ (at[c] = "ready" /\ c \in Runs)
    /\ Leave(c)
    /\ UNCHANGED <<signIns, newest, record, forms, hours, faults, ghosts>>

-----------------------------------------------------------------------------
(* People.                                                                  *)

\* choose: the choices are listed by one connector; the one made is checked by
\* another, with the credentials the request read when it began.
Check(f) ==
    /\ at[f] = "ready" /\ inDate[f] /\ ~checking[f]
    /\ checking' = [checking EXCEPT ![f] = TRUE]
    /\ has' = [has EXCEPT ![f] = copy[f]]
    /\ inDate' = [inDate EXCEPT ![f] = copyFresh[f]]
    /\ UNCHANGED <<signIns, newest, record, at, used, copy, copyFresh, hours, faults, ghosts>>

\* store_verified, with the values the form holds: not the connector's.
StoreVerified(f) ==
    /\ at[f] = "ready" /\ inDate[f] /\ checking[f]
    /\ token' = copy[f] /\ fresh' = copyFresh[f]
    /\ putBack' = IF Takes(copy[f]) THEN putBack ELSE putBack \cup {copy[f]}
    /\ Leave(f)
    /\ UNCHANGED <<signIns, newest, forms, hours, faults, lost>>

\* write_platform_tokens, and what may be chosen without asking.
SignIn ==
    /\ signIns < MaxSignIns /\ signIns' = signIns + 1
    /\ token' = <<signIns + 1, 1>> /\ fresh' = TRUE
    /\ UNCHANGED <<newest, memory, forms, hours, faults, ghosts>>

Disconnect ==
    /\ token # None
    /\ token' = None /\ fresh' = FALSE
    /\ UNCHANGED <<signIns, newest, memory, forms, hours, faults, ghosts>>

\* Every access token issued so far runs out.
HourPasses ==
    /\ hours < MaxHours /\ hours' = hours + 1
    /\ fresh' = FALSE
    /\ inDate' = [c \in Clients |-> FALSE]
    /\ copyFresh' = [f \in Forms |-> FALSE]
    /\ UNCHANGED <<signIns, newest, token, at, has, used, copy, checking, faults, ghosts>>

-----------------------------------------------------------------------------
People == SignIn \/ Disconnect \/ \E f \in Forms : StoreVerified(f)

Next ==
    \/ \E c \in Clients :
          \/ Open(c) \/ Renew(c) \/ AnswerLost(c) \/ Refused(c) \/ Recover(c)
          \/ Save(c) \/ SaveFails(c) \/ Die(c) \/ Close(c)
    \/ \E f \in Forms : Check(f)
    \/ People
    \/ HourPasses

Spec == Init /\ [][Next]_vars

-----------------------------------------------------------------------------
(* Properties.                                                              *)

TypeOK ==
    /\ signIns \in SignIns
    /\ newest \in [SignIns -> 1..MaxRenewals]
    /\ token \in Tokens \cup {None}
    /\ fresh \in BOOLEAN
    /\ at \in [Clients -> Labels]
    /\ has \in [Clients -> Tokens \cup {None}]
    /\ inDate \in [Clients -> BOOLEAN]
    /\ \A c \in Clients : at[c] # "idle" => has[c] # None
    /\ used \in [Clients -> Tokens \cup {None}]
    /\ copy \in [Forms -> Tokens \cup {None}]
    /\ copyFresh \in [Forms -> BOOLEAN]
    /\ checking \in [Forms -> BOOLEAN]
    /\ hours \in 0..MaxHours
    /\ faults \in 0..MaxFaults
    /\ lost \subseteq Tokens
    /\ putBack \subseteq Tokens

\* The stored token has been spent and its replacement is not being saved.
OnItsWay == \E c \in Clients : at[c] = "renewed" /\ used[c] = token
Broken == token # None /\ ~Takes(token) /\ ~OnItsWay

\* "A connector that refreshes must store the new one, or the connection breaks
\* on its next refresh": however many connectors renew beside each other, the
\* connection is broken only when an answer or a save was lost, or a form has
\* stored a spent token.
BreaksOnlyByLoss == Broken => token \in lost \cup putBack

\* "A single-use token another worker has just spent is recovered from the
\* database instead of failing": a connector whose token is refused gives up only
\* if nobody is signed in, the connection is broken, or the other worker has not
\* saved yet.
RecoversFromOthers ==
    [][\A c \in Clients : at[c] = "refused" /\ at'[c] = "failed" =>
          token = None \/ OnItsWay \/ token \in lost \cup putBack]_vars

\* A connector moves the connection forward along its own sign-in and no other:
\* a late save undoes neither a new sign-in nor a disconnection.
RunsOnlyRenew ==
    [][token' # token =>
          \/ People
          \/ token # None /\ token'[1] = token[1] /\ token'[2] > token[2]]_vars

-----------------------------------------------------------------------------
(* The inductive invariant behind BreaksOnlyByLoss.                         *)

\* t was issued, in a sign-in there has been.
WasIssued(t) == t[1] <= signIns /\ t[2] <= newest[t[1]]

\* What is stored or held was issued; sign-ins to come have one token.
Issued ==
    /\ token # None => WasIssued(token)
    /\ \A c \in Clients : has[c] # None => WasIssued(has[c])
    /\ \A f \in Forms : copy[f] # None => WasIssued(copy[f])
    /\ \A f \in Forms : at[f] # "idle" => copy[f] # None
    /\ \A s \in SignIns : s > signIns => newest[s] = 1

\* What a connector is about to save is the vendor's newest, came of the token it
\* compares with, and nobody else has it.
RenewedHeldByOne ==
    \A c \in Clients : at[c] = "renewed" =>
        /\ used[c] # None /\ has[c] = Next1(used[c])
        /\ Takes(has[c])
        /\ token # has[c]
        /\ \A d \in Clients \ {c} : has[d] # has[c]
        /\ \A f \in Forms : copy[f] # has[c]

\* A token refused once is refused for good.
RefusedIsSpent == \A c \in Clients : at[c] = "refused" => ~Takes(has[c])

IInv ==
    /\ TypeOK
    /\ Issued
    /\ RenewedHeldByOne
    /\ RefusedIsSpent
    /\ BreaksOnlyByLoss

=============================================================================
