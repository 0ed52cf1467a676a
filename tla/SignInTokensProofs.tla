------------------------- MODULE SignInTokensProofs -------------------------
(***************************************************************************)
(* What is proved of SignInTokens for any number of connectors and forms,  *)
(* sign-ins, renewals, hours and faults: IInv is inductive, and the type   *)
(* invariant, BreaksOnlyByLoss, RunsOnlyRenew and RecoversFromOthers       *)
(* follow.  A renewal is the only step that spends a token; the step's     *)
(* lemma therefore says of every other token that the vendor takes it      *)
(* exactly when it did.                                                    *)
(***************************************************************************)
EXTENDS SignInTokens, TLAPS

\* A token is its sign-in and its place; the next one is a token if there is room.
LEMMA TokenFacts ==
    ASSUME NEW t \in Tokens
    PROVE  /\ t = <<t[1], t[2]>>
           /\ t[1] \in SignIns /\ t[2] \in 1..MaxRenewals
           /\ t # None
           /\ Next1(t) # None
           /\ Next1(t)[1] = t[1] /\ Next1(t)[2] = t[2] + 1
           /\ t[2] < MaxRenewals => Next1(t) \in Tokens
           /\ Next1(t) # t
BY SignInAssumption DEF Tokens, None, Next1, SignIns

\* Two tokens differ in their sign-in or in their place.
LEMMA TokensDiffer ==
    ASSUME NEW t \in Tokens, NEW u \in Tokens, t # u
    PROVE  t[1] # u[1] \/ t[2] # u[2]
BY DEF Tokens

\* A sign-in's first token is a token.
LEMMA FirstToken ==
    ASSUME NEW s \in SignIns
    PROVE  <<s, 1>> \in Tokens /\ <<s, 1>>[1] = s /\ <<s, 1>>[2] = 1
BY SignInAssumption DEF Tokens

\* No sign-in is not a token.
LEMMA NoneFacts == None \notin Tokens
BY DEF Tokens, None, SignIns

\* IInv holds of a connection just signed in.
LEMMA InitHolds == Init => IInv
<1> SUFFICES ASSUME Init PROVE IInv
  OBVIOUS
<1> USE SignInAssumption
<1>1. TypeOK
  BY DEF Init, TypeOK, SignIns, Tokens, None, Labels, Clients
<1>2. Issued /\ RenewedHeldByOne /\ RefusedIsSpent /\ BreaksOnlyByLoss
  BY DEF Init, Issued, WasIssued, RenewedHeldByOne, RefusedIsSpent, BreaksOnlyByLoss, Broken, Takes, SignIns, None, Clients
<1> QED BY <1>1, <1>2 DEF IInv

\* Renewing spends the newest token of one sign-in and issues the next to one
\* connector: nobody can have it already, since it was not issued before.
LEMMA RenewKeeps ==
    ASSUME IInv, NEW c \in Clients, Renew(c)
    PROVE  IInv'
<1> USE DEF IInv
<1>0. PICK t : t = has[c]
  OBVIOUS
<1>1. t \in Tokens /\ t[2] = newest[t[1]] /\ t[2] < MaxRenewals /\ ~inDate[c] /\ at[c] \in {"ready", "again"}
  BY <1>0 DEF TypeOK, Renew, Asks, Takes
<1>2. /\ newest' = [newest EXCEPT ![t[1]] = newest[t[1]] + 1]
      /\ at' = [at EXCEPT ![c] = "renewed"]
      /\ used' = [used EXCEPT ![c] = t]
      /\ has' = [has EXCEPT ![c] = Next1(t)]
      /\ inDate' = [inDate EXCEPT ![c] = TRUE]
      /\ UNCHANGED <<signIns, token, fresh, copy, copyFresh, checking, hours, faults, lost, putBack>>
  BY <1>0 DEF Renew, Goto, record, forms, ghosts
<1>3. /\ t[1] \in SignIns /\ t[2] \in 1..MaxRenewals /\ t # None
      /\ Next1(t) \in Tokens /\ Next1(t)[1] = t[1] /\ Next1(t)[2] = t[2] + 1
  BY <1>1, TokenFacts
<1>4. TypeOK'
  BY <1>1, <1>2, <1>3, NoneFacts, SignInAssumption DEF TypeOK, Labels
<1>5. \A u \in Tokens : u[1] \in SignIns /\ u[2] \in Nat
  BY TokenFacts
<1>6. \A s \in SignIns : newest[s] \in Nat /\ newest'[s] = IF s = t[1] THEN newest[s] + 1 ELSE newest[s]
  BY <1>2, <1>3 DEF TypeOK
<1>7. \A u \in Tokens : WasIssued(u) => WasIssued(u)'
  BY <1>2, <1>5, <1>6 DEF WasIssued
<1>8. WasIssued(Next1(t))'
  BY <1>0, <1>1, <1>2, <1>3, <1>6 DEF WasIssued, Issued, TypeOK
<1>9. Issued'
  <2>1. (token # None => WasIssued(token))'
    BY <1>2, <1>7 DEF Issued, TypeOK
  <2>2. (\A d \in Clients : has[d] # None => WasIssued(has[d]))'
    <3> SUFFICES ASSUME NEW d \in Clients, has'[d] # None
                 PROVE  WasIssued(has[d])'
      OBVIOUS
    <3>1. CASE d = c
      BY <3>1, <1>2, <1>8 DEF TypeOK
    <3>2. CASE d # c
      BY <3>2, <1>2, <1>7 DEF Issued, TypeOK
    <3> QED BY <3>1, <3>2
  <2>3. (\A f \in Forms : copy[f] # None => WasIssued(copy[f]))'
    BY <1>2, <1>7 DEF Issued, TypeOK
  <2>4. (\A f \in Forms : at[f] # "idle" => copy[f] # None)'
    BY <1>1, <1>2 DEF Issued, TypeOK, Clients
  <2>5. t[1] <= signIns
    BY <1>0, <1>3 DEF Issued, WasIssued
  <2>6. (\A s \in SignIns : s > signIns => newest[s] = 1)'
    BY <2>5, <1>2, <1>3, <1>6 DEF Issued, TypeOK, SignIns
  <2> QED BY <2>1, <2>2, <2>3, <2>4, <2>6 DEF Issued
<1>10. \A u \in Tokens : u # t => (Takes(u)' => Takes(u) \/ u = Next1(t))
  BY <1>1, <1>2, <1>3, <1>5, <1>6, TokensDiffer, TokenFacts DEF Takes
<1>11. \A u \in Tokens : Takes(u) /\ u # t => Takes(u)'
  BY <1>1, <1>2, <1>3, <1>5, <1>6, TokensDiffer, TokenFacts DEF Takes
<1>12. \A u \in Tokens : WasIssued(u) => u # Next1(t)
  BY <1>1, <1>3, <1>5, <1>6 DEF WasIssued
<1>13. Takes(Next1(t))'
  BY <1>1, <1>2, <1>3, <1>6, TokenFacts DEF Takes
<1>14. RefusedIsSpent'
  BY <1>0, <1>1, <1>2, <1>3, <1>6, <1>10, <1>12 DEF RefusedIsSpent, Issued, TypeOK, Takes
<1>15. \A d \in Clients \ {c} : at[d] = "renewed" => has[d] # t
  BY <1>0 DEF RenewedHeldByOne
<1>16. RenewedHeldByOne'
  BY <1>0, <1>1, <1>2, <1>3, <1>11, <1>12, <1>13, <1>15, NoneFacts, TokenFacts DEF RenewedHeldByOne, Issued, TypeOK
<1>17. BreaksOnlyByLoss'
  BY <1>1, <1>2, <1>3, <1>11 DEF BreaksOnlyByLoss, Broken, OnItsWay, TypeOK
<1> QED BY <1>4, <1>9, <1>14, <1>16, <1>17


\* A renewal whose answer is lost is accounted for.
LEMMA AnswerLostKeeps ==
    ASSUME IInv, NEW c \in Clients, AnswerLost(c)
    PROVE  IInv'
<1> USE DEF IInv
<1>0. PICK t : t = has[c]
  OBVIOUS
<1>1. t \in Tokens /\ t[2] = newest[t[1]] /\ t[2] < MaxRenewals /\ at[c] \in {"ready", "again"}
  BY <1>0 DEF TypeOK, AnswerLost, Asks, Takes
<1>2. /\ newest' = [newest EXCEPT ![t[1]] = newest[t[1]] + 1]
      /\ at' = [at EXCEPT ![c] = "failed"]
      /\ faults < MaxFaults /\ faults' = faults + 1
      /\ lost' = lost \cup {t}
      /\ UNCHANGED <<signIns, token, fresh, has, inDate, used, copy, copyFresh, checking, hours, putBack>>
  BY <1>0 DEF AnswerLost, Goto, record, forms
<1>3. t[1] \in SignIns /\ t[2] \in 1..MaxRenewals /\ t # None
  BY <1>1, TokenFacts
<1>4. TypeOK'
  BY <1>0, <1>1, <1>2, <1>3, SignInAssumption DEF TypeOK, Labels
<1>5. \A u \in Tokens : u[1] \in SignIns /\ u[2] \in Nat
  BY TokenFacts
<1>6. \A s \in SignIns : newest[s] \in Nat /\ newest'[s] = IF s = t[1] THEN newest[s] + 1 ELSE newest[s]
  BY <1>2, <1>3 DEF TypeOK
<1>7. \A u \in Tokens : WasIssued(u) => WasIssued(u)'
  BY <1>2, <1>5, <1>6 DEF WasIssued
<1>8. Issued'
  <2>1. (token # None => WasIssued(token))'
    BY <1>2, <1>7 DEF Issued, TypeOK
  <2>2. (\A d \in Clients : has[d] # None => WasIssued(has[d]))'
    BY <1>2, <1>7 DEF Issued, TypeOK
  <2>3. (\A f \in Forms : copy[f] # None => WasIssued(copy[f]))'
    BY <1>2, <1>7 DEF Issued, TypeOK
  <2>4. (\A f \in Forms : at[f] # "idle" => copy[f] # None)'
    BY <1>1, <1>2 DEF Issued, TypeOK, Clients
  <2>5. t[1] <= signIns
    BY <1>0, <1>3 DEF Issued, WasIssued
  <2>6. (\A s \in SignIns : s > signIns => newest[s] = 1)'
    BY <2>5, <1>2, <1>3, <1>6 DEF Issued, TypeOK, SignIns
  <2> QED BY <2>1, <2>2, <2>3, <2>4, <2>6 DEF Issued
<1>9. \A u \in Tokens : WasIssued(u) /\ Takes(u)' => Takes(u)
  BY <1>1, <1>2, <1>3, <1>5, <1>6 DEF Takes, WasIssued
<1>10. \A u \in Tokens : Takes(u) /\ u # t => Takes(u)'
  BY <1>1, <1>2, <1>3, <1>5, <1>6, TokensDiffer, TokenFacts DEF Takes
<1>11. RefusedIsSpent'
  BY <1>1, <1>2, <1>9 DEF RefusedIsSpent, Issued, TypeOK, Takes
<1>12. RenewedHeldByOne'
  BY <1>0, <1>1, <1>2, <1>10 DEF RenewedHeldByOne, Issued, TypeOK
<1>13. BreaksOnlyByLoss'
  BY <1>1, <1>2, <1>10 DEF BreaksOnlyByLoss, Broken, OnItsWay, TypeOK
<1> QED BY <1>4, <1>8, <1>11, <1>12, <1>13

\* A refusal changes nothing but where the connector is.
LEMMA RefusedKeeps ==
    ASSUME IInv, NEW c \in Clients, Refused(c)
    PROVE  IInv'
<1> USE DEF IInv
<1>1. /\ ~Takes(has[c]) /\ at[c] \in {"ready", "again"}
      /\ at' = [at EXCEPT ![c] = IF at[c] = "ready" THEN "refused" ELSE "failed"]
      /\ UNCHANGED <<signIns, newest, token, fresh, has, inDate, used, copy, copyFresh, checking, hours, faults, lost, putBack>>
  BY DEF Refused, Asks, Goto, record, forms, ghosts
<1>2. TypeOK'
  BY <1>1, NoneFacts, SignInAssumption DEF TypeOK, Labels
<1>3. Issued'
  BY <1>1, NoneFacts DEF Issued, WasIssued, TypeOK
<1>4. RenewedHeldByOne'
  BY <1>1, NoneFacts DEF RenewedHeldByOne, Takes, TypeOK
<1>5. RefusedIsSpent'
  BY <1>1, NoneFacts DEF RefusedIsSpent, Takes, TypeOK
<1>6. BreaksOnlyByLoss'
  BY <1>1, NoneFacts DEF BreaksOnlyByLoss, Broken, OnItsWay, Takes, TypeOK
<1> QED BY <1>2, <1>3, <1>4, <1>5, <1>6

\* Closing a connector forgets what it has.
LEMMA CloseKeeps ==
    ASSUME IInv, NEW c \in Clients, Close(c)
    PROVE  IInv'
<1> USE DEF IInv
<1>1. /\ at[c] \in {"ready", "failed"}
      /\ at' = [at EXCEPT ![c] = "idle"]
      /\ has' = [has EXCEPT ![c] = None]
      /\ inDate' = [inDate EXCEPT ![c] = FALSE]
      /\ used' = [used EXCEPT ![c] = None]
      /\ UNCHANGED <<signIns, newest, token, fresh, copy, copyFresh, checking, hours, faults, lost, putBack>>
  BY DEF Close, Leave, Goto, record, forms, ghosts
<1>2. TypeOK'
  BY <1>1, NoneFacts, SignInAssumption DEF TypeOK, Labels
<1>3. Issued'
  BY <1>1, NoneFacts DEF Issued, WasIssued, TypeOK
<1>4. RenewedHeldByOne'
  BY <1>1, NoneFacts DEF RenewedHeldByOne, Takes, TypeOK
<1>5. RefusedIsSpent'
  BY <1>1, NoneFacts DEF RefusedIsSpent, Takes, TypeOK
<1>6. BreaksOnlyByLoss'
  BY <1>1, NoneFacts DEF BreaksOnlyByLoss, Broken, OnItsWay, Takes, TypeOK
<1> QED BY <1>2, <1>3, <1>4, <1>5, <1>6

\* A process that dies loses the replacement it was about to save.
LEMMA DieKeeps ==
    ASSUME IInv, NEW c \in Clients, Die(c)
    PROVE  IInv'
<1> USE DEF IInv
<1>1. /\ at[c] = "renewed"
      /\ at' = [at EXCEPT ![c] = "idle"]
      /\ has' = [has EXCEPT ![c] = None]
      /\ inDate' = [inDate EXCEPT ![c] = FALSE]
      /\ used' = [used EXCEPT ![c] = None]
      /\ faults < MaxFaults /\ faults' = faults + 1
      /\ lost' = lost \cup {used[c]} /\ used[c] \in Tokens
      /\ UNCHANGED <<signIns, newest, token, fresh, copy, copyFresh, checking, hours, putBack>>
  BY DEF Die, Leave, Goto, record, forms, TypeOK, RenewedHeldByOne
<1>2. TypeOK'
  BY <1>1, NoneFacts, SignInAssumption DEF TypeOK, Labels
<1>3. Issued'
  BY <1>1, NoneFacts DEF Issued, WasIssued, TypeOK
<1>4. RenewedHeldByOne'
  BY <1>1, NoneFacts DEF RenewedHeldByOne, Takes, TypeOK
<1>5. RefusedIsSpent'
  BY <1>1, NoneFacts DEF RefusedIsSpent, Takes, TypeOK
<1>6. BreaksOnlyByLoss'
  BY <1>1, NoneFacts DEF BreaksOnlyByLoss, Broken, OnItsWay, Takes, TypeOK
<1> QED BY <1>2, <1>3, <1>4, <1>5, <1>6

\* A save that fails loses the replacement, for the database.
LEMMA SaveFailsKeeps ==
    ASSUME IInv, NEW c \in Clients, SaveFails(c)
    PROVE  IInv'
<1> USE DEF IInv
<1>1. /\ at[c] = "renewed"
      /\ at' = [at EXCEPT ![c] = "ready"]
      /\ used' = [used EXCEPT ![c] = None]
      /\ faults < MaxFaults /\ faults' = faults + 1
      /\ lost' = lost \cup {used[c]} /\ used[c] \in Tokens
      /\ UNCHANGED <<signIns, newest, token, fresh, has, inDate, copy, copyFresh, checking, hours, putBack>>
  BY DEF SaveFails, Goto, record, forms, TypeOK, RenewedHeldByOne
<1>2. TypeOK'
  BY <1>1, NoneFacts, SignInAssumption DEF TypeOK, Labels
<1>3. Issued'
  BY <1>1, NoneFacts DEF Issued, WasIssued, TypeOK
<1>4. RenewedHeldByOne'
  BY <1>1, NoneFacts DEF RenewedHeldByOne, Takes, TypeOK
<1>5. RefusedIsSpent'
  BY <1>1, NoneFacts DEF RefusedIsSpent, Takes, TypeOK
<1>6. BreaksOnlyByLoss'
  BY <1>1, NoneFacts DEF BreaksOnlyByLoss, Broken, OnItsWay, Takes, TypeOK
<1> QED BY <1>2, <1>3, <1>4, <1>5, <1>6

\* A save stores the vendor's newest token or nothing.
LEMMA SaveKeeps ==
    ASSUME IInv, NEW c \in Clients, Save(c)
    PROVE  IInv'
<1> USE DEF IInv
<1>1. /\ at[c] = "renewed" /\ has[c] \in Tokens /\ Takes(has[c])
      /\ at' = [at EXCEPT ![c] = "ready"]
      /\ \/ token = used[c] /\ token' = has[c] /\ fresh' = inDate[c]
         \/ token # used[c] /\ token' = token /\ fresh' = fresh
      /\ used' = [used EXCEPT ![c] = None]
      /\ UNCHANGED <<signIns, newest, has, inDate, copy, copyFresh, checking, hours, faults, lost, putBack>>
  BY DEF Save, Goto, record, forms, ghosts, TypeOK, RenewedHeldByOne
<1>2. TypeOK'
  BY <1>1, NoneFacts, SignInAssumption DEF TypeOK, Labels
<1>3. Issued'
  BY <1>1, NoneFacts DEF Issued, WasIssued, TypeOK
<1>4. RenewedHeldByOne'
  BY <1>1, NoneFacts DEF RenewedHeldByOne, Takes, TypeOK
<1>5. RefusedIsSpent'
  BY <1>1, NoneFacts DEF RefusedIsSpent, Takes, TypeOK
<1>6. BreaksOnlyByLoss'
  BY <1>1, NoneFacts DEF BreaksOnlyByLoss, Broken, OnItsWay, Takes, TypeOK
<1> QED BY <1>2, <1>3, <1>4, <1>5, <1>6

\* Recovering copies what is stored.
LEMMA RecoverKeeps ==
    ASSUME IInv, NEW c \in Clients, Recover(c)
    PROVE  IInv'
<1> USE DEF IInv
<1>1. /\ at[c] = "refused"
      /\ \/ at' = [at EXCEPT ![c] = "failed"] /\ has' = has /\ inDate' = inDate
         \/ /\ token \in Tokens
            /\ has' = [has EXCEPT ![c] = token]
            /\ inDate' = [inDate EXCEPT ![c] = fresh]
            /\ at' = [at EXCEPT ![c] = IF fresh THEN "ready" ELSE "again"]
      /\ UNCHANGED <<signIns, newest, token, fresh, used, copy, copyFresh, checking, hours, faults, lost, putBack>>
  BY DEF Recover, Goto, record, forms, ghosts, TypeOK
<1>2. TypeOK'
  BY <1>1, NoneFacts, SignInAssumption DEF TypeOK, Labels
<1>3. Issued'
  <2>1. CASE has' = has
    BY <1>1, <2>1 DEF Issued, WasIssued, TypeOK, Clients
  <2>2. CASE token # None /\ has' = [has EXCEPT ![c] = token]
    BY <1>1, <2>2 DEF Issued, WasIssued, TypeOK, Clients
  <2> QED BY <1>1, <2>1, <2>2, NoneFacts
<1>4. RenewedHeldByOne'
  BY <1>1, NoneFacts DEF RenewedHeldByOne, Takes, TypeOK
<1>5. RefusedIsSpent'
  BY <1>1, NoneFacts DEF RefusedIsSpent, Takes, TypeOK
<1>6. BreaksOnlyByLoss'
  BY <1>1, NoneFacts DEF BreaksOnlyByLoss, Broken, OnItsWay, Takes, TypeOK
<1> QED BY <1>2, <1>3, <1>4, <1>5, <1>6

\* Opening a connector copies what is stored.
LEMMA OpenKeeps ==
    ASSUME IInv, NEW c \in Clients, Open(c)
    PROVE  IInv'
<1> USE DEF IInv
<1>1. /\ at[c] = "idle" /\ token \in Tokens
      /\ at' = [at EXCEPT ![c] = "ready"]
      /\ has' = [has EXCEPT ![c] = token]
      /\ inDate' = [inDate EXCEPT ![c] = fresh]
      /\ copy' = [copy EXCEPT ![c] = token] \/ (copy' = copy /\ c \notin Forms)
      /\ copyFresh' = [copyFresh EXCEPT ![c] = fresh] \/ copyFresh' = copyFresh
      /\ checking' \in [Forms -> BOOLEAN]
      /\ UNCHANGED <<signIns, newest, token, fresh, used, hours, faults, lost, putBack>>
  BY SignInAssumption DEF Open, Goto, record, forms, ghosts, TypeOK, Clients
<1>2. TypeOK'
  BY <1>1, NoneFacts, SignInAssumption DEF TypeOK, Labels
<1>3. Issued'
  BY <1>1, NoneFacts DEF Issued, WasIssued, TypeOK
<1>4. RenewedHeldByOne'
  BY <1>1, NoneFacts DEF RenewedHeldByOne, Takes, TypeOK
<1>5. RefusedIsSpent'
  BY <1>1, NoneFacts DEF RefusedIsSpent, Takes, TypeOK
<1>6. BreaksOnlyByLoss'
  BY <1>1, NoneFacts DEF BreaksOnlyByLoss, Broken, OnItsWay, Takes, TypeOK
<1> QED BY <1>2, <1>3, <1>4, <1>5, <1>6

\* The second connector of a form has the form's copy.
LEMMA CheckKeeps ==
    ASSUME IInv, NEW f \in Forms, Check(f)
    PROVE  IInv'
<1> USE DEF IInv
<1>1. /\ at[f] = "ready" /\ copy[f] \in Tokens /\ f \in Clients
      /\ checking' = [checking EXCEPT ![f] = TRUE]
      /\ has' = [has EXCEPT ![f] = copy[f]]
      /\ inDate' = [inDate EXCEPT ![f] = copyFresh[f]]
      /\ UNCHANGED <<signIns, newest, token, fresh, at, used, copy, copyFresh, hours, faults, lost, putBack>>
  BY DEF Check, record, ghosts, TypeOK, Issued, Clients
<1>2. TypeOK'
  BY <1>1, NoneFacts, SignInAssumption DEF TypeOK, Labels
<1>3. Issued'
  BY <1>1, NoneFacts DEF Issued, WasIssued, TypeOK
<1>4. RenewedHeldByOne'
  BY <1>1, NoneFacts DEF RenewedHeldByOne, Takes, TypeOK
<1>5. RefusedIsSpent'
  BY <1>1, NoneFacts DEF RefusedIsSpent, Takes, TypeOK
<1>6. BreaksOnlyByLoss'
  BY <1>1, NoneFacts DEF BreaksOnlyByLoss, Broken, OnItsWay, Takes, TypeOK
<1> QED BY <1>2, <1>3, <1>4, <1>5, <1>6

\* A form stores a token the vendor takes, or one that is noted as put back.
LEMMA StoreVerifiedKeeps ==
    ASSUME IInv, NEW f \in Forms, StoreVerified(f)
    PROVE  IInv'
<1> USE DEF IInv
<1>1. /\ at[f] = "ready" /\ copy[f] \in Tokens /\ f \in Clients
      /\ token' = copy[f] /\ fresh' = copyFresh[f]
      /\ putBack' = IF Takes(copy[f]) THEN putBack ELSE putBack \cup {copy[f]}
      /\ at' = [at EXCEPT ![f] = "idle"]
      /\ has' = [has EXCEPT ![f] = None]
      /\ inDate' = [inDate EXCEPT ![f] = FALSE]
      /\ used' = [used EXCEPT ![f] = None]
      /\ UNCHANGED <<signIns, newest, copy, copyFresh, checking, hours, faults, lost>>
  BY DEF StoreVerified, Leave, Goto, forms, TypeOK, Issued, Clients
<1>2. TypeOK'
  BY <1>1, NoneFacts, SignInAssumption DEF TypeOK, Labels
<1>3. Issued'
  BY <1>1, NoneFacts DEF Issued, WasIssued, TypeOK
<1>4. RenewedHeldByOne'
  BY <1>1, NoneFacts DEF RenewedHeldByOne, Takes, TypeOK
<1>5. RefusedIsSpent'
  BY <1>1, NoneFacts DEF RefusedIsSpent, Takes, TypeOK
<1>6. BreaksOnlyByLoss'
  BY <1>1, NoneFacts DEF BreaksOnlyByLoss, Broken, OnItsWay, Takes, TypeOK
<1> QED BY <1>2, <1>3, <1>4, <1>5, <1>6

\* A connection without a token is not broken.
LEMMA DisconnectKeeps ==
    ASSUME IInv, Disconnect
    PROVE  IInv'
<1> USE DEF IInv
<1>1. /\ token' = None /\ fresh' = FALSE
      /\ UNCHANGED <<signIns, newest, at, has, inDate, used, copy, copyFresh, checking, hours, faults, lost, putBack>>
  BY DEF Disconnect, memory, forms, ghosts
<1>2. TypeOK'
  BY <1>1, NoneFacts, SignInAssumption DEF TypeOK, Labels
<1>3. Issued'
  BY <1>1, NoneFacts DEF Issued, WasIssued, TypeOK
<1>4. RenewedHeldByOne'
  BY <1>1, NoneFacts DEF RenewedHeldByOne, Takes, TypeOK
<1>5. RefusedIsSpent'
  BY <1>1, NoneFacts DEF RefusedIsSpent, Takes, TypeOK
<1>6. BreaksOnlyByLoss'
  BY <1>1, NoneFacts DEF BreaksOnlyByLoss, Broken, OnItsWay, Takes, TypeOK
<1> QED BY <1>2, <1>3, <1>4, <1>5, <1>6

\* Access tokens that run out change no refresh token.
LEMMA HourPassesKeeps ==
    ASSUME IInv, HourPasses
    PROVE  IInv'
<1> USE DEF IInv
<1>1. /\ hours < MaxHours /\ hours' = hours + 1
      /\ fresh' = FALSE
      /\ inDate' = [c \in Clients |-> FALSE]
      /\ copyFresh' = [f \in Forms |-> FALSE]
      /\ UNCHANGED <<signIns, newest, token, at, has, used, copy, checking, faults, lost, putBack>>
  BY DEF HourPasses, ghosts
<1>2. TypeOK'
  <2>1. inDate' \in [Clients -> BOOLEAN] /\ copyFresh' \in [Forms -> BOOLEAN] /\ fresh' \in BOOLEAN
    BY <1>1
  <2>2. hours' \in 0..MaxHours
    BY <1>1, SignInAssumption DEF TypeOK
  <2> QED BY <1>1, <2>1, <2>2 DEF TypeOK
<1>3. Issued'
  BY <1>1, NoneFacts DEF Issued, WasIssued, TypeOK
<1>4. RenewedHeldByOne'
  BY <1>1, NoneFacts DEF RenewedHeldByOne, Takes, TypeOK
<1>5. RefusedIsSpent'
  BY <1>1, NoneFacts DEF RefusedIsSpent, Takes, TypeOK
<1>6. BreaksOnlyByLoss'
  BY <1>1, NoneFacts DEF BreaksOnlyByLoss, Broken, OnItsWay, Takes, TypeOK
<1> QED BY <1>2, <1>3, <1>4, <1>5, <1>6

\* A new sign-in's first token was never issued and is taken.
LEMMA SignInKeeps ==
    ASSUME IInv, SignIn
    PROVE  IInv'
<1> USE DEF IInv
<1>0. PICK s : s = signIns + 1
  OBVIOUS
<1>1. /\ signIns < s /\ s \in SignIns /\ signIns' = s
      /\ token' = <<s, 1>> /\ fresh' = TRUE
      /\ UNCHANGED <<newest, at, has, inDate, used, copy, copyFresh, checking, hours, faults, lost, putBack>>
  BY <1>0, SignInAssumption DEF SignIn, memory, forms, ghosts, TypeOK, SignIns
<1>2. PICK t \in Tokens : t = <<s, 1>> /\ t[1] = s /\ t[2] = 1
  BY <1>1, FirstToken
<1>3. TypeOK'
  BY <1>1, <1>2 DEF TypeOK
<1>4. newest[s] = 1
  BY <1>1 DEF Issued
<1>5. \A u \in Tokens : WasIssued(u) => WasIssued(u)' /\ u # t
  BY <1>1, <1>2, TokenFacts DEF WasIssued, TypeOK, SignIns
<1>6. Issued'
  BY <1>1, <1>2, <1>4, <1>5 DEF Issued, WasIssued, TypeOK, SignIns
<1>7. RenewedHeldByOne'
  BY <1>1, <1>2, <1>5, NoneFacts DEF RenewedHeldByOne, Takes, TypeOK, Issued
<1>8. RefusedIsSpent'
  BY <1>1 DEF RefusedIsSpent, Takes
<1>9. BreaksOnlyByLoss'
  BY <1>1, <1>2, <1>4 DEF BreaksOnlyByLoss, Broken, Takes
<1> QED BY <1>3, <1>6, <1>7, <1>8, <1>9

\* IInv is an invariant of the specification.
THEOREM Invariance == Spec => []IInv
<1>1. IInv /\ [Next]_vars => IInv'
  <2> SUFFICES ASSUME IInv, [Next]_vars PROVE IInv'
    OBVIOUS
  <2>1. CASE \E c \in Clients :
          \/ Open(c) \/ Renew(c) \/ AnswerLost(c) \/ Refused(c) \/ Recover(c)
          \/ Save(c) \/ SaveFails(c) \/ Die(c) \/ Close(c)
    BY <2>1, OpenKeeps, RenewKeeps, AnswerLostKeeps, RefusedKeeps, RecoverKeeps, SaveKeeps,
       SaveFailsKeeps, DieKeeps, CloseKeeps
  <2>2. CASE (\E f \in Forms : Check(f)) \/ People \/ HourPasses
    BY <2>2, CheckKeeps, StoreVerifiedKeeps, SignInKeeps, DisconnectKeeps, HourPassesKeeps DEF People
  <2>3. CASE UNCHANGED vars
    BY <2>3 DEF vars, record, memory, forms, ghosts, IInv, TypeOK, Issued, WasIssued, RenewedHeldByOne,
                RefusedIsSpent, BreaksOnlyByLoss, Broken, OnItsWay, Takes
  <2> QED BY <2>1, <2>2, <2>3 DEF Next
<1> QED BY InitHolds, <1>1, PTL DEF Spec

\* Every variable has its type, and a connector in use has a refresh token.
THEOREM TypeCorrect == Spec => []TypeOK
<1>1. IInv => TypeOK
  BY DEF IInv
<1> QED BY <1>1, Invariance, PTL

\* The stored token is spent for good only after a lost answer, a failed save, a
\* dead process or a form that stored a spent token (oauth_tokens.save_rotated).
THEOREM ConnectionsBreakOnlyByLoss == Spec => []BreaksOnlyByLoss
<1>1. IInv => BreaksOnlyByLoss
  BY DEF IInv
<1> QED BY <1>1, Invariance, PTL

\* A late save undoes neither a new sign-in nor a disconnection, and moves a
\* sign-in forward only.
THEOREM RunsOnlyRenewIt == Spec => RunsOnlyRenew
<1> DEFINE A == token' # token =>
                  \/ People
                  \/ token # None /\ token'[1] = token[1] /\ token'[2] > token[2]
<1>1. IInv /\ [Next]_vars => [A]_vars
  <2> SUFFICES ASSUME IInv, Next, ~People, token' # token
               PROVE  token # None /\ token'[1] = token[1] /\ token'[2] > token[2]
    OBVIOUS
  <2>1. PICK c \in Clients : Save(c)
    BY DEF Next, Open, Renew, AnswerLost, Refused, Recover, SaveFails, Die, Close, Check, HourPasses, record
  <2>2. used[c] \in Tokens /\ token = used[c] /\ token' = Next1(used[c])
    BY <2>1 DEF Save, record, IInv, TypeOK, RenewedHeldByOne
  <2>3. token \in Tokens /\ token' = Next1(token)
    BY <2>2
  <2>4. token[2] \in Nat
    BY <2>3, TokenFacts, SignInAssumption
  <2> QED BY <2>3, <2>4, TokenFacts
<1>2. QED BY <1>1, Invariance, PTL DEF Spec, RunsOnlyRenew

\* A connector refused because another renewed first gives up only in the cases
\* RecoversFromOthers names (oauth._recover_rotated).
THEOREM RecoveryIsTried == Spec => RecoversFromOthers
<1> DEFINE A == \A c \in Clients : at[c] = "refused" /\ at'[c] = "failed" =>
                  token = None \/ OnItsWay \/ token \in lost \cup putBack
<1>1. IInv /\ [Next]_vars => [A]_vars
  <2> SUFFICES ASSUME IInv, Next, NEW c \in Clients, at[c] = "refused", at'[c] = "failed",
                      token # None, ~OnItsWay
               PROVE  token \in lost \cup putBack
    OBVIOUS
  <2>1. Recover(c)
    BY DEF Next, People, Open, Renew, AnswerLost, Refused, Recover, Save, SaveFails, Die, Close, Check, HourPasses,
           SignIn, Disconnect, StoreVerified, Leave, Goto, Asks, memory, IInv, TypeOK
  <2>2. token = has[c]
    BY <2>1 DEF Recover, Goto, IInv, TypeOK
  <2> QED BY <2>2 DEF IInv, RefusedIsSpent, BreaksOnlyByLoss, Broken
<1>2. QED BY <1>1, Invariance, PTL DEF Spec, RecoversFromOthers

=============================================================================
