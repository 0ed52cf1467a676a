------------------------ MODULE CreativeQuotaProofs -------------------------
(***************************************************************************)
(* What is proved of CreativeQuota for any number of jobs and any limits,  *)
(* ceilings and prompt sizes: IInv is inductive, and the type invariant,   *)
(* JobsWithinLimit and NothingUncharged follow; UseInv is inductive        *)
(* beside it, by what SumFacts says of the sums over the rows of a month,  *)
(* and UseBounded follows.                                                 *)
(***************************************************************************)
EXTENDS CreativeQuota, SumFacts

\* The laxer of two limits admits what either admits; 0 is no limit.
LEMMA Limits ==
    ASSUME NEW l \in Nat, NEW m \in Nat
    PROVE  /\ Laxer(l, m) \in {l, m} \cup {0}
           /\ \A n \in Nat : Within(n, l) => Within(n, Laxer(l, m))
           /\ Laxer(Laxer(l, m), m) = Laxer(l, m)
           /\ Laxer(l, l) = l
           /\ \A n \in Nat : Within(n, m) /\ Laxer(l, m) = l => Within(n, l)
           /\ Within(0, l) /\ Within(1, l)
BY DEF Laxer, Within

\* Prompts add up.
LEMMA Prompts ==
    ASSUME NEW n \in Nat, NEW m \in Nat
    PROVE  /\ MaxPrompt * n \in Nat
           /\ MaxPrompt * (n + 1) = MaxPrompt * n + MaxPrompt
           /\ n <= m => MaxPrompt * n <= MaxPrompt * m
<1>1. MaxPrompt \in Nat
  BY QuotaAssumption
<1>2. ASSUME n <= m PROVE MaxPrompt * n <= MaxPrompt * m
  <2>1. PICK d \in Nat : m = n + d
    <3>1. m - n \in Nat /\ m = n + (m - n)
      BY <1>2
    <3> QED BY <3>1
  <2>2. MaxPrompt * m = MaxPrompt * n + MaxPrompt * d /\ MaxPrompt * d \in Nat /\ MaxPrompt * n \in Nat
    BY <1>1, <2>1
  <2> QED BY <2>2
<1> QED BY <1>1, <1>2

\* A month's rows can be counted.
LEMMA RowsFinite ==
    ASSUME NEW m
    PROVE  IsFiniteSet(OfMonth(m)) /\ Cardinality(OfMonth(m)) \in Nat /\ OfMonth(m) \subseteq Jobs
<1>1. OfMonth(m) \in SUBSET Jobs
  BY DEF Rows, OfMonth
<1> QED BY <1>1, QuotaAssumption, FS_Subset, FS_CardinalityType

\* The limits and the highest limits of a month are numbers.
LEMMA LimitsAreNat ==
    ASSUME TypeOK, NEW k \in Kinds
    PROVE  /\ limits[k] \in Nat
           /\ \A m \in Months : ceiling[m][k] \in Nat
           /\ month \in Months /\ month \in Nat /\ 0..month \subseteq Months
<1>1. limits[k] \in LimitValues /\ \A m \in Months : ceiling[m][k] \in LimitValues
  BY DEF TypeOK
<1>2. month \in Months /\ month \in Nat /\ 0..month \subseteq Months
  BY QuotaAssumption DEF TypeOK, Months
<1> QED BY <1>1, <1>2, QuotaAssumption

\* IInv holds before the first request.
LEMMA InitHolds == Init => IInv
<1> SUFFICES ASSUME Init PROVE IInv
  OBVIOUS
<1> USE QuotaAssumption
<1>1. TypeOK
  <2>1. limits \in [Kinds -> LimitValues] /\ ceiling \in [Months -> [Kinds -> LimitValues]]
    BY DEF Init
  <2> QED BY <2>1 DEF Init, TypeOK, Kinds, Labels, Months
<1>2. Rows = {}
  BY DEF Init, Rows
<1>3. ASSUME NEW k \in Kinds PROVE ceiling[month][k] = limits[k] /\ limits[k] \in Nat
  BY <1>1, LimitsAreNat DEF Init, Months
<1>4. Ceilings
  BY <1>3, Limits DEF Ceilings
<1>5. JobsWithinLimit
  <2> SUFFICES ASSUME NEW m \in 0..month PROVE Within(Cardinality(OfMonth(m)), ceiling[m]["jobs"])
    BY DEF JobsWithinLimit
  <2>1. m = month /\ Cardinality(OfMonth(m)) = 0
    BY <1>2, FS_EmptySet DEF Init, OfMonth
  <2> QED BY <1>3, <2>1, Limits DEF Kinds
<1>6. CountsAlone /\ NotAhead /\ RoomIsLeft
  BY <1>2 DEF Init, CountsAlone, NotAhead, RoomIsLeft
<1>7. Reserved
  BY DEF Init, Reserved, Calling
<1> QED BY <1>1, <1>4, <1>5, <1>6, <1>7 DEF IInv

\* A step that admits no design and changes no limit leaves the designs of every
\* month within its limit.
LEMMA SameRows ==
    ASSUME IInv, Rows' = Rows, UNCHANGED <<month, created, limits, ceiling>>
    PROVE  /\ Ceilings' /\ NotAhead' /\ JobsWithinLimit'
           /\ ThisMonth' = ThisMonth
           /\ \A m : OfMonth(m)' = OfMonth(m)
<1>1. \A m : OfMonth(m)' = OfMonth(m)
  BY DEF OfMonth
<1>2. ThisMonth' = ThisMonth
  BY <1>1 DEF ThisMonth
<1>3. Ceilings' /\ NotAhead'
  BY DEF IInv, Ceilings, NotAhead
<1>4. JobsWithinLimit'
  BY <1>1 DEF IInv, JobsWithinLimit
<1> QED BY <1>1, <1>2, <1>3, <1>4

\* Counting takes the lock: nobody else is between counting and writing, so the
\* room it saw is there until it writes.
LEMMA CountKeeps ==
    ASSUME IInv, NEW j \in Jobs, NEW k \in Kinds, Count(j, k)
    PROVE  IInv'
<1> USE QuotaAssumption DEF IInv
<1>1. /\ lock = NoJob /\ lock' = j
      /\ (at[j] = "new" /\ k = "jobs") \/ (at[j] = "idle" /\ k # "jobs")
      /\ at' = [at EXCEPT ![j] = "counted"]
      /\ kind' = [kind EXCEPT ![j] = k]
      /\ room' = [room EXCEPT ![j] = Fits(k)]
      /\ UNCHANGED <<month, created, images, inputs, unknown, outputs, limits, changes, ceiling, calls, deaths,
                     lateImages, lateTokens, spent, blind>>
  BY DEF Count, rows, runs, admin, lates, truth
<1>2. TypeOK'
  <2>1. Fits(k) \in BOOLEAN
    BY DEF Fits, Within
  <2> QED BY <1>1, <2>1 DEF TypeOK, Labels
<1>3. CountsAlone'
  BY <1>1 DEF CountsAlone, TypeOK
<1>4. Rows' = Rows
  BY <1>1 DEF Rows, TypeOK
<1>5. Ceilings' /\ NotAhead' /\ JobsWithinLimit' /\ ThisMonth' = ThisMonth
  BY <1>1, <1>4, SameRows
<1>6. RoomIsLeft'
  <2>1. \A i \in Jobs : at[i] # "counted"
    BY <1>1 DEF CountsAlone
  <2>2. Fits("jobs") => Within(Cardinality(ThisMonth) + 1, ceiling[month]["jobs"])
    <3>1. limits["jobs"] \in Nat /\ ceiling[month]["jobs"] \in Nat
          /\ Laxer(ceiling[month]["jobs"], limits["jobs"]) = ceiling[month]["jobs"]
      BY LimitsAreNat DEF Ceilings, Kinds
    <3>2. Cardinality(ThisMonth) + 1 \in Nat
      BY RowsFinite DEF ThisMonth
    <3> QED BY <3>1, <3>2, Limits DEF Fits, Used, Asks
  <2> QED BY <1>1, <1>5, <2>1, <2>2 DEF RoomIsLeft, TypeOK
<1>7. Reserved'
  BY <1>1 DEF Reserved, Calling, TypeOK
<1> QED BY <1>2, <1>3, <1>5, <1>6, <1>7

\* Nothing is written where there is no room.
LEMMA RefuseKeeps ==
    ASSUME IInv, NEW j \in Jobs, Refuse(j)
    PROVE  IInv'
<1> USE QuotaAssumption DEF IInv
<1>1. /\ at[j] = "counted" /\ lock = j /\ lock' = NoJob
      /\ at' = [at EXCEPT ![j] = IF kind[j] = "jobs" THEN "new" ELSE "gone"]
      /\ UNCHANGED <<month, created, images, inputs, unknown, outputs, kind, room, limits, changes, ceiling, calls,
                     deaths, lateImages, lateTokens, spent, blind>>
  BY DEF Refuse, rows, admin, lates, truth, Unlock, CountsAlone
<1>2. TypeOK'
  BY <1>1 DEF TypeOK, Labels
<1>3. CountsAlone'
  BY <1>1 DEF CountsAlone, TypeOK
<1>4. Rows' = Rows
  BY <1>1 DEF Rows, TypeOK
<1>5. Ceilings' /\ NotAhead' /\ JobsWithinLimit' /\ ThisMonth' = ThisMonth
  BY <1>1, <1>4, SameRows
<1>6. RoomIsLeft'
  BY <1>1, <1>5 DEF RoomIsLeft, TypeOK
<1>7. Reserved'
  BY <1>1 DEF Reserved, Calling, TypeOK
<1> QED BY <1>2, <1>3, <1>5, <1>6, <1>7

\* Admitting adds the one design there was room for.
LEMMA AdmitKeeps ==
    ASSUME IInv, NEW j \in Jobs, Admit(j)
    PROVE  IInv'
<1> USE QuotaAssumption DEF IInv
<1>1. /\ at[j] = "counted" /\ kind[j] = "jobs" /\ room[j] /\ lock = j /\ lock' = NoJob
      /\ created' = [created EXCEPT ![j] = month]
      /\ at' = [at EXCEPT ![j] = "idle"]
      /\ UNCHANGED <<month, images, inputs, unknown, outputs, kind, room, limits, changes, ceiling, calls, deaths,
                     lateImages, lateTokens, spent, blind>>
  BY DEF Admit, admin, lates, truth, Unlock, CountsAlone
<1>2. TypeOK'
  BY <1>1 DEF TypeOK, Labels
<1>3. CountsAlone'
  BY <1>1 DEF CountsAlone, TypeOK
<1>4. Ceilings'
  BY <1>1 DEF Ceilings
<1>5. Rows' = Rows \cup {j} /\ j \notin Rows
  BY <1>1 DEF Rows, TypeOK
<1>6. /\ NotAhead'
      /\ OfMonth(month)' = OfMonth(month) \cup {j} /\ j \notin OfMonth(month)
      /\ \A m : m # month => OfMonth(m)' = OfMonth(m)
  BY <1>1, <1>5 DEF NotAhead, OfMonth, TypeOK, Months, Rows
<1>7. JobsWithinLimit'
  <2>1. Cardinality(OfMonth(month)') = Cardinality(OfMonth(month)) + 1
    BY <1>6, RowsFinite, FS_AddElement
  <2>2. Within(Cardinality(OfMonth(month)'), ceiling[month]["jobs"])
    BY <1>1, <2>1 DEF RoomIsLeft, ThisMonth
  <2> SUFFICES ASSUME NEW m \in 0..month PROVE Within(Cardinality(OfMonth(m)'), ceiling[m]["jobs"])
    BY <1>1 DEF JobsWithinLimit
  <2>3. CASE m = month
    <3>1. OfMonth(m)' = OfMonth(month)'
      BY <1>1, <2>3 DEF OfMonth
    <3> QED BY <2>2, <2>3, <3>1
  <2>4. CASE m # month
    BY <1>6, <2>4 DEF JobsWithinLimit
  <2> QED BY <2>3, <2>4
<1>8. RoomIsLeft'
  BY <1>1 DEF RoomIsLeft, CountsAlone, TypeOK
<1>9. Reserved'
  BY <1>1 DEF Reserved, Calling, TypeOK
<1> QED BY <1>2, <1>3, <1>4, <1>6, <1>7, <1>8, <1>9

\* Reserving commits the most a call may use before it begins.
LEMMA ReserveKeeps ==
    ASSUME IInv, NEW j \in Jobs, Reserve(j)
    PROVE  IInv'
<1> USE QuotaAssumption DEF IInv
<1>1. /\ at[j] = "counted" /\ lock = j /\ lock' = NoJob
      /\ \/ kind[j] = "images" /\ images' = [images EXCEPT ![j] = images[j] + 1] /\ outputs' = outputs
         \/ kind[j] = "tokens" /\ outputs' = [outputs EXCEPT ![j] = outputs[j] + CallCeiling] /\ images' = images
      /\ at' = [at EXCEPT ![j] = "calling"]
      /\ calls' = [calls EXCEPT ![j] = calls[j] + 1]
      /\ lateImages' \in {lateImages, [lateImages EXCEPT ![j] = lateImages[j] + 1]}
      /\ lateTokens' \in {lateTokens, [lateTokens EXCEPT ![j] = lateTokens[j] + CallCeiling + MaxPrompt]}
      /\ UNCHANGED <<month, created, inputs, unknown, kind, room, limits, changes, ceiling, deaths, spent, blind>>
  BY DEF Reserve, LateFor, admin, lates, truth, Unlock, CountsAlone
<1>2. TypeOK'
  <2>1. images[j] + 1 \in Nat /\ outputs[j] + CallCeiling \in Nat
        /\ lateImages[j] + 1 \in Nat /\ lateTokens[j] + CallCeiling + MaxPrompt \in Nat
    BY DEF TypeOK
  <2>2. /\ images' \in [Jobs -> Nat] /\ outputs' \in [Jobs -> Nat]
        /\ lateImages' \in [Jobs -> Nat] /\ lateTokens' \in [Jobs -> Nat]
    <3>1. images \in [Jobs -> Nat] /\ outputs \in [Jobs -> Nat]
          /\ lateImages \in [Jobs -> Nat] /\ lateTokens \in [Jobs -> Nat]
      BY DEF TypeOK
    <3>2. images' = images \/ images' = [images EXCEPT ![j] = images[j] + 1]
      BY <1>1
    <3>3. outputs' = outputs \/ outputs' = [outputs EXCEPT ![j] = outputs[j] + CallCeiling]
      BY <1>1
    <3>4. images' \in [Jobs -> Nat]
      BY <2>1, <3>1, <3>2
    <3>5. outputs' \in [Jobs -> Nat]
      BY <2>1, <3>1, <3>3
    <3>6. lateImages' \in [Jobs -> Nat] /\ lateTokens' \in [Jobs -> Nat]
      BY <1>1, <2>1, <3>1
    <3> QED BY <3>4, <3>5, <3>6
  <2> QED BY <1>1, <2>1, <2>2 DEF TypeOK, Labels
<1>3. CountsAlone'
  BY <1>1 DEF CountsAlone, TypeOK
<1>4. Rows' = Rows
  BY <1>1 DEF Rows, TypeOK
<1>5. Ceilings' /\ NotAhead' /\ JobsWithinLimit' /\ ThisMonth' = ThisMonth
  BY <1>1, <1>4, SameRows
<1>6. RoomIsLeft'
  BY <1>1, <1>5 DEF RoomIsLeft, TypeOK
<1>7. Reserved'
  BY <1>1 DEF Reserved, Calling, TypeOK
<1> QED BY <1>2, <1>3, <1>5, <1>6, <1>7

\* A picture that failed gives its reservation back.
LEMMA PictureKeeps ==
    ASSUME IInv, NEW j \in Jobs, Picture(j)
    PROVE  IInv'
<1> USE QuotaAssumption DEF IInv
<1>1. /\ at[j] = "calling" /\ kind[j] = "images"
      /\ at' = [at EXCEPT ![j] = "idle"]
      /\ \E made \in {0, 1} : images' = [images EXCEPT ![j] = images[j] - 1 + made]
      /\ UNCHANGED <<month, created, inputs, unknown, outputs, lock, kind, room, limits, changes, ceiling, calls,
                     deaths, lateImages, lateTokens, spent, blind>>
  BY DEF Picture, admin, lates, truth, Calling, BackFrom
<1>2. TypeOK'
  BY <1>1 DEF TypeOK, Labels, Reserved, Calling
<1>3. CountsAlone'
  BY <1>1 DEF CountsAlone, TypeOK
<1>4. Rows' = Rows
  BY <1>1 DEF Rows, TypeOK
<1>5. Ceilings' /\ NotAhead' /\ JobsWithinLimit' /\ ThisMonth' = ThisMonth
  BY <1>1, <1>4, SameRows
<1>6. RoomIsLeft'
  BY <1>1, <1>5 DEF RoomIsLeft, TypeOK
<1>7. Reserved'
  BY <1>1 DEF Reserved, Calling, TypeOK
<1> QED BY <1>2, <1>3, <1>5, <1>6, <1>7

\* A token call ends: what it used and is not charged is at most one prompt, which
\* is then counted as blind.
LEMMA CallEnds ==
    ASSUME TypeOK, Reserved, NEW j \in Jobs, Calling(j, "tokens"),
           NEW n \in Nat, NEW b \in {0, 1},
           spent' = [spent EXCEPT ![j] = spent[j] + n],
           blind' = [blind EXCEPT ![j] = blind[j] + b],
           at' = [at EXCEPT ![j] = "idle"], UNCHANGED <<images, kind>>,
           \A i \in Jobs : i # j => inputs'[i] = inputs[i] /\ outputs'[i] = outputs[i],
           inputs'[j] \in Nat, outputs'[j] \in Nat,
           inputs[j] + outputs[j] - CallCeiling + n
               <= inputs'[j] + outputs'[j] + (IF b = 1 THEN MaxPrompt ELSE 0)
    PROVE  Reserved' /\ spent' \in [Jobs -> Nat] /\ blind' \in [Jobs -> Nat]
<1> USE QuotaAssumption
<1>1. spent' \in [Jobs -> Nat] /\ blind' \in [Jobs -> Nat]
  BY DEF TypeOK
<1>2. spent'[j] <= inputs'[j] + outputs'[j] + MaxPrompt * blind'[j]
  <2> DEFINE a == MaxPrompt * blind[j]
             c == MaxPrompt * blind'[j]
  <2>1. blind[j] \in Nat /\ blind'[j] = blind[j] + b
    BY DEF TypeOK
  <2>2. a \in Nat /\ c = a + (IF b = 1 THEN MaxPrompt ELSE 0)
    <3>1. CASE b = 0
      <4>1. blind'[j] = blind[j]
        BY <2>1, <3>1
      <4>2. a \in Nat
        BY <2>1, Prompts
      <4>3. c = a /\ b # 1
        BY <3>1, <4>1
      <4> HIDE DEF a, c
      <4> QED BY <4>2, <4>3
    <3>2. CASE b = 1
      BY <2>1, <3>2, Prompts
    <3> QED BY <3>1, <3>2
  <2>3. spent[j] + CallCeiling <= inputs[j] + outputs[j] + a
    BY DEF Reserved
  <2>4. spent'[j] = spent[j] + n /\ spent[j] \in Nat /\ inputs[j] \in Nat /\ outputs[j] \in Nat
    BY DEF TypeOK
  <2> HIDE DEF a, c
  <2>5. spent'[j] <= inputs'[j] + outputs'[j] + c
    BY <2>2, <2>3, <2>4
  <2> QED BY <2>5 DEF c
<1>3. Reserved'
  <2> SUFFICES ASSUME NEW i \in Jobs
               PROVE  /\ Calling(i, "images")' => images'[i] > 0
                      /\ Calling(i, "tokens")' => outputs'[i] >= CallCeiling
                      /\ spent'[i] + (IF Calling(i, "tokens")' THEN CallCeiling ELSE 0)
                             <= inputs'[i] + outputs'[i] + MaxPrompt * blind'[i]
    BY DEF Reserved
  <2>1. CASE i = j
    <3>1. ~Calling(i, "tokens")' /\ ~Calling(i, "images")'
      BY <2>1 DEF Calling, TypeOK
    <3>2. spent'[j] + 0 = spent'[j]
      BY <1>1
    <3> QED BY <1>2, <2>1, <3>1, <3>2
  <2>2. CASE i # j
    <3>1. /\ Calling(i, "tokens")' <=> Calling(i, "tokens")
          /\ Calling(i, "images")' <=> Calling(i, "images")
          /\ spent'[i] = spent[i] /\ blind'[i] = blind[i] /\ images'[i] = images[i]
          /\ inputs'[i] = inputs[i] /\ outputs'[i] = outputs[i]
      BY <2>2 DEF Calling, TypeOK
    <3> QED BY <3>1 DEF Reserved
  <2> QED BY <2>1, <2>2
<1> QED BY <1>1, <1>3

\* A call whose use is reported is charged what it used, but for a prompt where the
\* count of the prompts is already unknown.
LEMMA ReportedKeeps ==
    ASSUME IInv, NEW j \in Jobs, NEW in \in 0..MaxPrompt, NEW out \in 0..CallCeiling, Reported(j, in, out)
    PROVE  IInv'
<1> USE QuotaAssumption DEF IInv
<1>1. /\ Calling(j, "tokens") /\ at[j] = "calling" /\ kind[j] = "tokens"
      /\ at' = [at EXCEPT ![j] = "idle"]
      /\ outputs' = [outputs EXCEPT ![j] = outputs[j] - CallCeiling + out]
      /\ inputs' = [inputs EXCEPT ![j] = IF unknown[j] THEN inputs[j] ELSE inputs[j] + in]
      /\ spent' = [spent EXCEPT ![j] = spent[j] + (in + out)]
      /\ blind' = [blind EXCEPT ![j] = IF ~unknown[j] THEN blind[j] ELSE blind[j] + 1]
      /\ UNCHANGED <<month, created, images, unknown, lock, kind, room, limits, changes, ceiling, calls, deaths,
                     lateImages, lateTokens>>
  BY DEF Reported, Spend, admin, lates, Calling, BackFrom
<1>2. PICK b \in {0, 1} : b = IF unknown[j] THEN 1 ELSE 0
  OBVIOUS
<1>3. Reserved' /\ spent' \in [Jobs -> Nat] /\ blind' \in [Jobs -> Nat]
  <2>1. blind' = [blind EXCEPT ![j] = blind[j] + b]
    <3>1. CASE unknown[j]
      BY <1>1, <1>2, <3>1
    <3>2. CASE ~unknown[j]
      <4>1. b = 0 /\ blind[j] + b = blind[j]
        BY <1>2, <3>2 DEF TypeOK
      <4> QED BY <1>1, <3>2, <4>1
    <3> QED BY <3>1, <3>2
  <2>2. outputs[j] >= CallCeiling /\ outputs[j] \in Nat /\ inputs[j] \in Nat
    BY <1>1 DEF Reserved, TypeOK
  <2>3. outputs'[j] = outputs[j] - CallCeiling + out
        /\ inputs'[j] = (IF unknown[j] THEN inputs[j] ELSE inputs[j] + in)
    BY <1>1 DEF TypeOK
  <2>4. /\ inputs'[j] \in Nat /\ outputs'[j] \in Nat
        /\ inputs[j] + outputs[j] - CallCeiling + (in + out)
              <= inputs'[j] + outputs'[j] + (IF b = 1 THEN MaxPrompt ELSE 0)
    BY <1>2, <2>2, <2>3
  <2>5. \A i \in Jobs : i # j => inputs'[i] = inputs[i] /\ outputs'[i] = outputs[i]
    BY <1>1 DEF TypeOK
  <2>6. in + out \in Nat
    OBVIOUS
  <2> QED BY <1>1, <2>1, <2>4, <2>5, <2>6, CallEnds
<1>4. TypeOK'
  BY <1>1, <1>3 DEF TypeOK, Labels, Reserved, Calling
<1>5. CountsAlone'
  BY <1>1 DEF CountsAlone, TypeOK
<1>6. Rows' = Rows
  BY <1>1 DEF Rows, TypeOK
<1>7. Ceilings' /\ NotAhead' /\ JobsWithinLimit' /\ ThisMonth' = ThisMonth
  BY <1>1, <1>6, SameRows
<1>8. RoomIsLeft'
  BY <1>1, <1>7 DEF RoomIsLeft, TypeOK
<1> QED BY <1>3, <1>4, <1>5, <1>7, <1>8

\* A call whose use is not reported is charged no less than its answer used.
LEMMA UnreportedKeeps ==
    ASSUME IInv, NEW j \in Jobs, Unreported(j)
    PROVE  IInv'
<1> USE QuotaAssumption DEF IInv
<1>1. /\ Calling(j, "tokens") /\ at[j] = "calling" /\ kind[j] = "tokens"
      /\ at' = [at EXCEPT ![j] = "idle"]
      /\ outputs' = [outputs EXCEPT ![j] = outputs[j] + inputs[j]]
      /\ inputs' = [inputs EXCEPT ![j] = 0]
      /\ unknown' = [unknown EXCEPT ![j] = TRUE]
      /\ spent' = [spent EXCEPT ![j] = spent[j] + (MaxPrompt + CallCeiling)]
      /\ blind' = [blind EXCEPT ![j] = blind[j] + 1]
      /\ UNCHANGED <<month, created, images, lock, kind, room, limits, changes, ceiling, calls, deaths,
                     lateImages, lateTokens>>
  BY DEF Unreported, Spend, admin, lates, Calling, BackFrom
<1>2. Reserved' /\ spent' \in [Jobs -> Nat] /\ blind' \in [Jobs -> Nat]
  <2>1. outputs[j] \in Nat /\ inputs[j] \in Nat /\ outputs'[j] = outputs[j] + inputs[j] /\ inputs'[j] = 0
    BY <1>1 DEF TypeOK
  <2>2. /\ inputs'[j] \in Nat /\ outputs'[j] \in Nat
        /\ inputs[j] + outputs[j] - CallCeiling + (MaxPrompt + CallCeiling)
              <= inputs'[j] + outputs'[j] + (IF 1 = 1 THEN MaxPrompt ELSE 0)
    BY <2>1
  <2>3. \A i \in Jobs : i # j => inputs'[i] = inputs[i] /\ outputs'[i] = outputs[i]
    BY <1>1 DEF TypeOK
  <2>4. MaxPrompt + CallCeiling \in Nat /\ 1 \in {0, 1}
    OBVIOUS
  <2> QED BY <1>1, <2>2, <2>3, <2>4, CallEnds
<1>3. TypeOK'
  BY <1>1, <1>2 DEF TypeOK, Labels
<1>4. CountsAlone'
  BY <1>1 DEF CountsAlone, TypeOK
<1>5. Rows' = Rows
  BY <1>1 DEF Rows, TypeOK
<1>6. Ceilings' /\ NotAhead' /\ JobsWithinLimit' /\ ThisMonth' = ThisMonth
  BY <1>1, <1>5, SameRows
<1>7. RoomIsLeft'
  BY <1>1, <1>6 DEF RoomIsLeft, TypeOK
<1> QED BY <1>2, <1>3, <1>4, <1>6, <1>7

\* A worker or request that dies leaves what it reserved.
LEMMA DieKeeps ==
    ASSUME IInv, NEW j \in Jobs, Die(j)
    PROVE  IInv'
<1> USE QuotaAssumption DEF IInv
<1>1. /\ at[j] \in {"counted", "calling"}
      /\ deaths' = deaths + 1
      /\ lock' = IF lock = j THEN NoJob ELSE lock
      /\ at' = [at EXCEPT ![j] = IF at[j] = "counted" /\ kind[j] = "jobs" THEN "new" ELSE "idle"]
      /\ \/ ~Calling(j, "tokens") /\ UNCHANGED <<spent, blind>>
         \/ /\ Calling(j, "tokens")
            /\ spent' = [spent EXCEPT ![j] = spent[j] + (MaxPrompt + CallCeiling)]
            /\ blind' = [blind EXCEPT ![j] = blind[j] + 1]
      /\ UNCHANGED <<month, created, images, inputs, unknown, outputs, kind, room, limits, changes, ceiling, calls,
                     lateImages, lateTokens>>
  BY DEF Die, Spend, rows, admin, lates, truth
<1>2. Reserved' /\ spent' \in [Jobs -> Nat] /\ blind' \in [Jobs -> Nat]
  <2>1. CASE ~Calling(j, "tokens")
    <3>1. UNCHANGED <<spent, blind>>
      BY <1>1, <2>1
    <3> QED BY <1>1, <2>1, <3>1 DEF Reserved, Calling, TypeOK
  <2>2. CASE Calling(j, "tokens")
    <3>1. /\ inputs'[j] \in Nat /\ outputs'[j] \in Nat /\ inputs[j] \in Nat /\ outputs[j] \in Nat
          /\ inputs[j] + outputs[j] - CallCeiling + (MaxPrompt + CallCeiling)
                <= inputs'[j] + outputs'[j] + (IF 1 = 1 THEN MaxPrompt ELSE 0)
      BY <1>1 DEF TypeOK
    <3>2. at' = [at EXCEPT ![j] = "idle"]
      BY <1>1, <2>2 DEF Calling
    <3>3. MaxPrompt + CallCeiling \in Nat /\ 1 \in {0, 1}
      OBVIOUS
    <3>4. \A i \in Jobs : i # j => inputs'[i] = inputs[i] /\ outputs'[i] = outputs[i]
      BY <1>1
    <3> QED BY <1>1, <2>2, <3>1, <3>2, <3>3, <3>4, CallEnds
  <2> QED BY <2>1, <2>2
<1>3. TypeOK'
  <2>1. at' \in [Jobs -> Labels] /\ lock' \in Jobs \cup {NoJob} /\ deaths' \in Nat
    BY <1>1 DEF TypeOK, Labels
  <2> QED BY <1>1, <1>2, <2>1 DEF TypeOK
<1>4. CountsAlone'
  BY <1>1 DEF CountsAlone, TypeOK
<1>5. Rows' = Rows
  BY <1>1 DEF Rows, TypeOK
<1>6. Ceilings' /\ NotAhead' /\ JobsWithinLimit' /\ ThisMonth' = ThisMonth
  BY <1>1, <1>5, SameRows
<1>7. RoomIsLeft'
  BY <1>1, <1>6 DEF RoomIsLeft, TypeOK
<1> QED BY <1>2, <1>3, <1>4, <1>6, <1>7

\* A limit that is changed leaves the month's highest no stricter, and the highest
\* of the months gone by as they were.
LEMMA SetLimitKeeps ==
    ASSUME IInv, NEW k \in Kinds, NEW l \in LimitValues, SetLimit(k, l)
    PROVE  IInv'
<1> USE QuotaAssumption DEF IInv
<1>1. /\ changes' = changes + 1
      /\ limits' = [limits EXCEPT ![k] = l]
      /\ ceiling' = [ceiling EXCEPT ![month][k] = Laxer(ceiling[month][k], l)]
      /\ UNCHANGED <<month, created, images, inputs, unknown, outputs, lock, at, kind, room, calls, deaths,
                     lateImages, lateTokens, spent, blind>>
  BY DEF SetLimit, rows, runs, lates, truth
<1>2. l \in Nat /\ \A i \in Kinds : limits[i] \in Nat /\ ceiling[month][i] \in Nat
  BY LimitsAreNat
<1>3. month \in Months /\ ceiling \in [Months -> [Kinds -> LimitValues]] /\ limits \in [Kinds -> LimitValues]
  BY DEF TypeOK
<1>4. /\ \A i \in Kinds : ceiling'[month][i] = IF i = k THEN Laxer(ceiling[month][k], l) ELSE ceiling[month][i]
      /\ \A i \in Kinds : limits'[i] = IF i = k THEN l ELSE limits[i]
      /\ \A m \in Months : m # month => ceiling'[m] = ceiling[m]
  BY <1>1, <1>3
<1>5. TypeOK'
  <2>1. Laxer(ceiling[month][k], l) \in LimitValues
    BY <1>3 DEF Laxer
  <2>2. ceiling' \in [Months -> [Kinds -> LimitValues]] /\ limits' \in [Kinds -> LimitValues]
    BY <1>1, <1>3, <2>1
  <2> QED BY <1>1, <2>2 DEF TypeOK
<1>6. \A n \in Nat : Within(n, ceiling[month]["jobs"]) => Within(n, ceiling'[month]["jobs"])
  BY <1>2, <1>4, Limits DEF Kinds
<1>7. Ceilings'
  <2> SUFFICES ASSUME NEW i \in Kinds PROVE Laxer(ceiling'[month][i], limits'[i]) = ceiling'[month][i]
    BY <1>1 DEF Ceilings
  <2>1. CASE i = k
    BY <1>2, <1>4, <2>1, Limits
  <2>2. CASE i # k
    BY <1>4, <2>2 DEF Ceilings
  <2> QED BY <2>1, <2>2
<1>8. Rows' = Rows /\ ThisMonth' = ThisMonth /\ \A m : OfMonth(m)' = OfMonth(m)
  BY <1>1 DEF Rows, ThisMonth, OfMonth
<1>9. JobsWithinLimit'
  <2> SUFFICES ASSUME NEW m \in 0..month PROVE Within(Cardinality(OfMonth(m)), ceiling'[m]["jobs"])
    BY <1>1, <1>8 DEF JobsWithinLimit
  <2>1. Within(Cardinality(OfMonth(m)), ceiling[m]["jobs"]) /\ Cardinality(OfMonth(m)) \in Nat /\ m \in Months
    BY RowsFinite, LimitsAreNat DEF JobsWithinLimit, Kinds
  <2>2. CASE m = month
    BY <1>6, <2>1, <2>2
  <2>3. CASE m # month
    BY <1>4, <2>1, <2>3
  <2> QED BY <2>2, <2>3
<1>10. RoomIsLeft'
  <2>1. Cardinality(ThisMonth) + 1 \in Nat
    BY RowsFinite DEF ThisMonth
  <2> QED BY <1>1, <1>6, <1>8, <2>1 DEF RoomIsLeft
<1>11. CountsAlone' /\ NotAhead' /\ Reserved'
  BY <1>1, <1>8 DEF CountsAlone, NotAhead, Reserved, Calling
<1> QED BY <1>5, <1>7, <1>9, <1>10, <1>11

\* A new month begins with no designs, so there is room for one that was counted
\* in the old month and is written in the new.
LEMMA MonthPassesKeeps ==
    ASSUME IInv, MonthPasses
    PROVE  IInv'
<1> USE QuotaAssumption DEF IInv
<1>1. /\ month < MaxMonth /\ month' = month + 1
      /\ ceiling' = [ceiling EXCEPT ![month + 1] = limits]
      /\ UNCHANGED <<created, images, inputs, unknown, outputs, lock, at, kind, room, limits, changes, calls, deaths,
                     lateImages, lateTokens, spent, blind>>
  BY DEF MonthPasses, rows, runs, lates, truth
<1>2. \A i \in Kinds : limits[i] \in Nat
  BY LimitsAreNat
<1>3. month \in 0..MaxMonth /\ month + 1 \in Months /\ ceiling \in [Months -> [Kinds -> LimitValues]]
      /\ limits \in [Kinds -> LimitValues]
  BY <1>1 DEF TypeOK, Months
<1>4. ceiling'[month + 1] = limits /\ \A m \in Months : m # month + 1 => ceiling'[m] = ceiling[m]
  BY <1>1, <1>3
<1>5. TypeOK'
  <2>1. ceiling' \in [Months -> [Kinds -> LimitValues]]
    BY <1>1, <1>3
  <2> QED BY <1>1, <1>3, <2>1 DEF TypeOK
<1>6. Ceilings'
  BY <1>1, <1>2, <1>4, Limits DEF Ceilings
<1>7. Rows' = Rows /\ \A m : OfMonth(m)' = OfMonth(m)
  BY <1>1 DEF Rows, OfMonth
<1>8. OfMonth(month + 1) = {} /\ ThisMonth' = {} /\ NotAhead'
  <2>1. month \in Nat /\ \A i \in Rows : created[i] \in Nat /\ created[i] <= month
    BY DEF TypeOK, Months, NotAhead, Rows
  <2>2. OfMonth(month + 1) = {}
    BY <2>1 DEF OfMonth
  <2>3. ThisMonth' = {}
    BY <1>1, <1>7, <2>1 DEF ThisMonth, OfMonth
  <2>4. NotAhead'
    BY <1>1, <1>7, <2>1 DEF NotAhead
  <2> QED BY <2>2, <2>3, <2>4
<1>9. Cardinality(OfMonth(month + 1)) = 0 /\ Cardinality(ThisMonth') = 0
  BY <1>8, FS_EmptySet
<1>10. Within(0, ceiling'[month']["jobs"]) /\ Within(0 + 1, ceiling'[month']["jobs"])
  BY <1>1, <1>2, <1>4, Limits DEF Kinds
<1>11. JobsWithinLimit'
  <2> SUFFICES ASSUME NEW m \in 0..(month + 1) PROVE Within(Cardinality(OfMonth(m)), ceiling'[m]["jobs"])
    BY <1>1, <1>7 DEF JobsWithinLimit
  <2>1. CASE m = month + 1
    BY <1>1, <1>9, <1>10, <2>1
  <2>2. CASE m # month + 1
    <3>1. m \in 0..month /\ m \in Months
      BY <1>3, <2>2 DEF Months
    <3> QED BY <1>4, <2>2, <3>1 DEF JobsWithinLimit
  <2> QED BY <2>1, <2>2
<1>12. RoomIsLeft'
  BY <1>9, <1>10 DEF RoomIsLeft
<1>13. CountsAlone' /\ Reserved'
  BY <1>1 DEF CountsAlone, Reserved, Calling
<1> QED BY <1>5, <1>6, <1>8, <1>11, <1>12, <1>13

\* IInv holds in every reachable state.
THEOREM Invariance == Spec => []IInv
<1>1. IInv /\ [Next]_vars => IInv'
  <2> SUFFICES ASSUME IInv, [Next]_vars PROVE IInv'
    OBVIOUS
  <2>1. CASE \E j \in Jobs : \E k \in Kinds : Count(j, k)
    BY <2>1, CountKeeps
  <2>2. CASE \E j \in Jobs : Refuse(j) \/ Admit(j) \/ Reserve(j) \/ Picture(j) \/ Settle(j) \/ Die(j)
    BY <2>2, RefuseKeeps, AdmitKeeps, ReserveKeeps, PictureKeeps, ReportedKeeps, UnreportedKeeps, DieKeeps DEF Settle
  <2>3. CASE \E k \in Kinds : \E l \in LimitValues : SetLimit(k, l)
    BY <2>3, SetLimitKeeps
  <2>4. CASE MonthPasses
    BY <2>4, MonthPassesKeeps
  <2>5. CASE UNCHANGED vars
    BY <2>5 DEF vars, rows, runs, admin, lates, truth, IInv, TypeOK, CountsAlone, Ceilings, NotAhead, RoomIsLeft,
                Reserved, JobsWithinLimit, Rows, ThisMonth, OfMonth, Calling
  <2> QED BY <2>1, <2>2, <2>3, <2>4, <2>5 DEF Next
<1> QED BY InitHolds, <1>1, PTL DEF Spec

\* Every variable keeps its type.
THEOREM TypeCorrect == Spec => []TypeOK
<1>1. IInv => TypeOK
  BY DEF IInv
<1> QED BY <1>1, Invariance, PTL

\* No month has more designs than the highest limit it had, however requests,
\* changes of the limit and the end of the month interleave.
THEOREM DesignsWithinLimit == Spec => []JobsWithinLimit
<1>1. IInv => JobsWithinLimit
  BY DEF IInv
<1> QED BY <1>1, Invariance, PTL

\* A job is charged all its calls used, but for the prompts of the calls nobody
\* counted.
THEOREM UseIsCharged == Spec => []NothingUncharged
<1>1. IInv => NothingUncharged
  <2> SUFFICES ASSUME IInv, NEW j \in Jobs
               PROVE  spent[j] <= inputs[j] + outputs[j] + MaxPrompt * blind[j]
    BY DEF NothingUncharged
  <2> DEFINE a == MaxPrompt * blind[j]
  <2>1. /\ spent[j] + (IF Calling(j, "tokens") THEN CallCeiling ELSE 0) <= inputs[j] + outputs[j] + a
        /\ spent[j] \in Nat /\ inputs[j] \in Nat /\ outputs[j] \in Nat /\ blind[j] \in Nat
    BY DEF IInv, Reserved, TypeOK
  <2>2. a \in Nat
    BY <2>1, Prompts
  <2> HIDE DEF a
  <2>3. spent[j] <= inputs[j] + outputs[j] + a
    BY <2>1, <2>2, QuotaAssumption
  <2> QED BY <2>3 DEF a
<1> QED BY <1>1, Invariance, PTL

-----------------------------------------------------------------------------
(* Pictures and tokens.                                                     *)

\* A step that leaves the rows of the months alone.
RowsStay == Rows' = Rows /\ UNCHANGED <<month, created, ceiling>>

\* What a month's designs were charged is a number, and so is the size of any part
\* of them.
LEMMA UseIsInt ==
    ASSUME TypeOK, NEW m \in Months
    PROVE  /\ \A x \in OfMonth(m) : Pictures[x] \in Int /\ Tokens[x] \in Int
           /\ Sum(Pictures, OfMonth(m)) \in Int /\ Sum(Tokens, OfMonth(m)) \in Int
           /\ IsFiniteSet(OfMonth(m)) /\ OfMonth(m) \subseteq Jobs
           /\ \A T \in SUBSET OfMonth(m) : IsFiniteSet(T) /\ Cardinality(T) \in Nat
                                          /\ Cardinality(T) <= Cardinality(OfMonth(m))
                                          /\ MaxPrompt * Cardinality(T) \in Nat
           /\ ceiling[m]["images"] \in Nat /\ ceiling[m]["tokens"] \in Nat
<1>1. IsFiniteSet(OfMonth(m)) /\ OfMonth(m) \subseteq Jobs
  BY RowsFinite
<1>2. \A x \in OfMonth(m) : Pictures[x] \in Int /\ Tokens[x] \in Int
  BY <1>1 DEF TypeOK, Pictures, Tokens
<1>3. Sum(Pictures, OfMonth(m)) \in Int /\ Sum(Tokens, OfMonth(m)) \in Int
  BY <1>1, <1>2, SumIsInt
<1>4. \A T \in SUBSET OfMonth(m) : IsFiniteSet(T) /\ Cardinality(T) \in Nat
                                   /\ Cardinality(T) <= Cardinality(OfMonth(m))
  BY <1>1, FS_Subset, FS_CardinalityType
<1>5. \A T \in SUBSET OfMonth(m) : MaxPrompt * Cardinality(T) \in Nat
  BY <1>4, Prompts
<1>6. ceiling[m]["images"] \in Nat /\ ceiling[m]["tokens"] \in Nat
  BY LimitsAreNat DEF Kinds
<1> QED BY <1>1, <1>2, <1>3, <1>4, <1>5, <1>6

\* The same of the state a step leads to, for a month whose rows it leaves alone.
LEMMA NextUseIsInt ==
    ASSUME TypeOK', RowsStay, NEW m \in Months
    PROVE  /\ OfMonth(m)' = OfMonth(m)
           /\ \A x \in OfMonth(m) : Pictures'[x] \in Int /\ Tokens'[x] \in Int
           /\ Sum(Pictures', OfMonth(m)) \in Int /\ Sum(Tokens', OfMonth(m)) \in Int
<1>1. OfMonth(m)' = OfMonth(m)
  BY DEF RowsStay, OfMonth
<1>2. IsFiniteSet(OfMonth(m)) /\ OfMonth(m) \subseteq Jobs
  BY RowsFinite
<1>3. \A x \in OfMonth(m) : Pictures'[x] \in Int /\ Tokens'[x] \in Int
  BY <1>2 DEF TypeOK, Pictures, Tokens
<1> QED BY <1>1, <1>2, <1>3, SumIsInt

\* A call or a count that ends: nothing is reserved, and what is charged beyond the
\* reservation is a prompt.
Ended(j) ==
    /\ RowsStay
    /\ UNCHANGED <<lateImages, lateTokens>>
    /\ \A i \in Jobs : i # j =>
          /\ at'[i] = at[i] /\ kind'[i] = kind[i] /\ room'[i] = room[i]
          /\ images'[i] = images[i] /\ inputs'[i] = inputs[i] /\ outputs'[i] = outputs[i]
    /\ at'[j] \notin {"counted", "calling"}
    /\ j \in Rows \/ UNCHANGED <<images, inputs, outputs>>
    /\ images'[j] <= images[j]
    /\ inputs'[j] + outputs'[j] <=
          inputs[j] + outputs[j] + (IF Calling(j, "tokens") THEN MaxPrompt ELSE 0)

\* The call that ends is one of this month's.
Tells(j, m) == j \in OfMonth(m) /\ Calling(j, "tokens")

\* Of a month, what ends adds a prompt at most, and then its job becomes quiet.
LEMMA EndedMonth ==
    ASSUME TypeOK, TypeOK', NEW j \in Jobs, Ended(j), NEW m \in Months
    PROVE  /\ Sum(Pictures', OfMonth(m)) <= Sum(Pictures, OfMonth(m))
           /\ Sum(Tokens', OfMonth(m)) <= Sum(Tokens, OfMonth(m)) + (IF Tells(j, m) THEN MaxPrompt ELSE 0)
           /\ \A X : j \notin X =>
                 /\ MaxPrompt * Cardinality(Quiet(m)' \ X) =
                       MaxPrompt * Cardinality(Quiet(m) \ X) + (IF Tells(j, m) THEN MaxPrompt ELSE 0)
                 /\ MaxPrompt * Cardinality(Quiet(m) \ X) \in Nat
<1> USE QuotaAssumption
<1> DEFINE S == OfMonth(m)
<1>1. /\ S' = S /\ IsFiniteSet(S) /\ S \subseteq Jobs
      /\ \A x \in S : Pictures[x] \in Int /\ Tokens[x] \in Int /\ Pictures'[x] \in Int /\ Tokens'[x] \in Int
      /\ Sum(Pictures, S) \in Int /\ Sum(Tokens, S) \in Int /\ Sum(Pictures', S) \in Int /\ Sum(Tokens', S) \in Int
  BY UseIsInt, NextUseIsInt DEF Ended
<1>2. /\ \A x \in S : x # j => Pictures'[x] = Pictures[x] /\ Tokens'[x] = Tokens[x]
      /\ Pictures'[j] <= Pictures[j]
      /\ Tokens'[j] <= Tokens[j] + (IF Calling(j, "tokens") THEN MaxPrompt ELSE 0)
  BY <1>1 DEF Ended, Pictures, Tokens, TypeOK
<1>3. /\ Sum(Pictures', S) <= Sum(Pictures, S)
      /\ Sum(Tokens', S) <= Sum(Tokens, S) + (IF Tells(j, m) THEN MaxPrompt ELSE 0)
  <2>1. CASE j \notin S
    <3>1. Sum(Pictures, S) = Sum(Pictures', S) /\ Sum(Tokens, S) = Sum(Tokens', S)
      BY <1>1, <1>2, <2>1, SumSame
    <3> QED BY <1>1, <2>1, <3>1 DEF Tells
  <2>2. CASE j \in S
    <3>1. /\ Sum(Pictures', S) = Sum(Pictures, S) + Pictures'[j] - Pictures[j]
          /\ Sum(Tokens', S) = Sum(Tokens, S) + Tokens'[j] - Tokens[j]
      BY <1>1, <1>2, <2>2, SumChanges
    <3>2. Tells(j, m) <=> Calling(j, "tokens")
      BY <2>2 DEF Tells
    <3> HIDE DEF S
    <3> QED BY <1>1, <1>2, <2>2, <3>1, <3>2
  <2> QED BY <2>1, <2>2
<1>4. /\ \A i \in Jobs : i # j => (Calling(i, "tokens")' <=> Calling(i, "tokens"))
      /\ ~Calling(j, "tokens")'
  BY DEF Ended, Calling
<1>5. Quiet(m)' = IF j \in S THEN Quiet(m) \cup {j} ELSE Quiet(m)
  BY <1>1, <1>4 DEF Quiet
<1>6. ASSUME NEW X, j \notin X
      PROVE  /\ Cardinality(Quiet(m) \ X) \in Nat
             /\ Cardinality(Quiet(m)' \ X) = Cardinality(Quiet(m) \ X) + (IF Tells(j, m) THEN 1 ELSE 0)
  <2>1. IsFiniteSet(Quiet(m) \ X) /\ Cardinality(Quiet(m) \ X) \in Nat
    <3>1. Quiet(m) \ X \in SUBSET S
      BY DEF Quiet
    <3> QED BY <3>1, UseIsInt
  <2>2. CASE Tells(j, m)
    <3>1. Quiet(m)' \ X = (Quiet(m) \ X) \cup {j} /\ j \notin Quiet(m) \ X
      BY <1>5, <1>6, <2>2 DEF Quiet, Tells
    <3> QED BY <2>1, <2>2, <3>1, FS_AddElement
  <2>3. CASE ~Tells(j, m)
    <3>1. Quiet(m)' = Quiet(m)
      BY <1>5, <2>3 DEF Quiet, Tells
    <3>2. Cardinality(Quiet(m)' \ X) = Cardinality(Quiet(m) \ X)
      BY <3>1
    <3> QED BY <2>1, <2>3, <3>2
  <2> QED BY <2>2, <2>3
<1>7. ASSUME NEW X, j \notin X
      PROVE  /\ MaxPrompt * Cardinality(Quiet(m)' \ X) =
                   MaxPrompt * Cardinality(Quiet(m) \ X) + (IF Tells(j, m) THEN MaxPrompt ELSE 0)
             /\ MaxPrompt * Cardinality(Quiet(m) \ X) \in Nat
  <2> DEFINE n == Cardinality(Quiet(m) \ X)
             k == Cardinality(Quiet(m)' \ X)
  <2>1. n \in Nat /\ k = n + (IF Tells(j, m) THEN 1 ELSE 0)
    BY <1>6, <1>7
  <2> HIDE DEF n, k
  <2>2. MaxPrompt * n \in Nat /\ MaxPrompt * (n + 1) = MaxPrompt * n + MaxPrompt
    BY <2>1, Prompts
  <2>3. MaxPrompt * k = MaxPrompt * n + (IF Tells(j, m) THEN MaxPrompt ELSE 0)
    <3>1. CASE Tells(j, m)
      BY <2>1, <2>2, <3>1
    <3>2. CASE ~Tells(j, m)
      <4>1. k = n
        BY <2>1, <3>2
      <4> QED BY <2>2, <3>2, <4>1
    <3> QED BY <3>1, <3>2
  <2> QED BY <2>2, <2>3 DEF n, k
<1> QED BY <1>3, <1>7

\* What ends leaves the bounds of every month as they are.
LEMMA EndedKeeps ==
    ASSUME TypeOK, TypeOK', UseInv, NEW j \in Jobs, Ended(j)
    PROVE  UseInv'
<1> USE QuotaAssumption
<1>1. Fresh'
  BY DEF Fresh, UseInv, Ended, RowsStay
<1>2. ASSUME NEW m \in 0..month PROVE UseLeft(m)'
  <2>1. m \in Months /\ OfMonth(m)' = OfMonth(m) /\ ceiling' = ceiling
    <3>1. m \in Months
      BY LimitsAreNat DEF Kinds
    <3> QED BY <3>1, NextUseIsInt DEF Ended, RowsStay
  <2> DEFINE a == MaxPrompt * Cardinality(Quiet(m))
             b == MaxPrompt * Cardinality(Quiet(m)')
  <2>2. b = a + (IF Tells(j, m) THEN MaxPrompt ELSE 0) /\ a \in Nat
    <3>1. Quiet(m) \ {} = Quiet(m) /\ Quiet(m)' \ {} = Quiet(m)' /\ j \notin {}
      OBVIOUS
    <3> QED BY <2>1, <3>1, EndedMonth
  <2> DEFINE u == Sum(Pictures, OfMonth(m))
             v == Sum(Pictures', OfMonth(m))
             w == Sum(Tokens, OfMonth(m))
             x == Sum(Tokens', OfMonth(m))
  <2>3. u \in Int /\ v \in Int /\ w \in Int /\ x \in Int
        /\ ceiling[m]["images"] \in Nat /\ ceiling[m]["tokens"] \in Nat
    BY <2>1, UseIsInt, NextUseIsInt DEF Ended
  <2>4. v <= u /\ x <= w + (IF Tells(j, m) THEN MaxPrompt ELSE 0)
    BY <2>1, EndedMonth
  <2>5. Within(u, ceiling[m]["images"]) /\ (ceiling[m]["tokens"] # 0 => w <= ceiling[m]["tokens"] + a)
    BY DEF UseInv, UseLeft
  <2> HIDE DEF a, b, u, v, w, x
  <2>6. Within(v, ceiling[m]["images"]) /\ (ceiling[m]["tokens"] # 0 => x <= ceiling[m]["tokens"] + b)
    BY <2>2, <2>3, <2>4, <2>5 DEF Within
  <2> QED BY <2>1, <2>6 DEF UseLeft, b, v, x
<1>3. UseRoom'
  <2>1. month \in Months /\ month' = month /\ ceiling' = ceiling
        /\ ThisMonth = OfMonth(month) /\ ThisMonth' = OfMonth(month)
    BY DEF TypeOK, Ended, RowsStay, ThisMonth, OfMonth
  <2> SUFFICES ASSUME NEW i \in OfMonth(month), at'[i] = "counted", room'[i]
               PROVE  /\ kind'[i] = "images" =>
                            Within(Sum(Pictures', OfMonth(month)) + 1, ceiling[month]["images"])
                      /\ kind'[i] = "tokens" /\ ceiling[month]["tokens"] # 0 =>
                            Sum(Tokens', OfMonth(month)) + CallCeiling
                                <= ceiling[month]["tokens"] + MaxPrompt * Cardinality(Quiet(month)' \ {i})
    BY <2>1 DEF UseRoom
  <2>2. i # j /\ i \in Jobs /\ at[i] = "counted" /\ room[i] /\ kind'[i] = kind[i]
    BY <2>1, UseIsInt DEF Ended
  <2>3. PICK m \in Months : m = month
    BY <2>1
  <2> DEFINE a == MaxPrompt * Cardinality(Quiet(m) \ {i})
             b == MaxPrompt * Cardinality(Quiet(m)' \ {i})
             u == Sum(Pictures, OfMonth(m))
             v == Sum(Pictures', OfMonth(m))
             w == Sum(Tokens, OfMonth(m))
             x == Sum(Tokens', OfMonth(m))
  <2>4. b = a + (IF Tells(j, m) THEN MaxPrompt ELSE 0) /\ a \in Nat
    BY <2>2, EndedMonth
  <2>5. u \in Int /\ v \in Int /\ w \in Int /\ x \in Int
        /\ ceiling[m]["images"] \in Nat /\ ceiling[m]["tokens"] \in Nat
    BY UseIsInt, NextUseIsInt DEF Ended
  <2>6. v <= u /\ x <= w + (IF Tells(j, m) THEN MaxPrompt ELSE 0)
    BY EndedMonth
  <2>7. /\ kind[i] = "images" => Within(u + 1, ceiling[m]["images"])
        /\ kind[i] = "tokens" /\ ceiling[m]["tokens"] # 0 => w + CallCeiling <= ceiling[m]["tokens"] + a
    BY <2>1, <2>2, <2>3 DEF UseInv, UseRoom
  <2>8. Quiet(month)' = Quiet(m)'
    BY <2>1, <2>3 DEF Quiet, OfMonth
  <2> HIDE DEF a, b, u, v, w, x
  <2>9. /\ kind'[i] = "images" => Within(v + 1, ceiling[m]["images"])
        /\ kind'[i] = "tokens" /\ ceiling[m]["tokens"] # 0 => x + CallCeiling <= ceiling[m]["tokens"] + b
    BY <2>2, <2>4, <2>5, <2>6, <2>7 DEF Within
  <2> QED BY <2>3, <2>8, <2>9 DEF b, v, x
<1>4. month' = month
  BY DEF Ended, RowsStay
<1> QED BY <1>1, <1>2, <1>3, <1>4 DEF UseInv

\* A count that is refused, a call that is settled and one that is cut short end
\* this way.
LEMMA EndKeepsUse ==
    ASSUME IInv, TypeOK', UseInv, NEW j \in Jobs,
           \/ Refuse(j) \/ Picture(j) \/ Die(j) \/ Unreported(j)
           \/ \E in \in 0..MaxPrompt : \E out \in 0..CallCeiling : Reported(j, in, out)
    PROVE  UseInv'
<1> USE QuotaAssumption DEF IInv
<1>1. ASSUME Refuse(j) PROVE Ended(j)
  BY <1>1 DEF Ended, RowsStay, Refuse, rows, admin, lates, TypeOK, Rows, Calling, Kinds
<1>2. ASSUME Picture(j) PROVE Ended(j)
  BY <1>2, SMTT(30) DEF Ended, RowsStay, Picture, admin, lates, TypeOK, Rows, Calling, BackFrom, Kinds
<1>3. ASSUME NEW in \in 0..MaxPrompt, NEW out \in 0..CallCeiling, Reported(j, in, out) PROVE Ended(j)
  BY <1>3, SMTT(30) DEF Ended, RowsStay, Reported, admin, lates, TypeOK, Rows, Calling, BackFrom, Kinds, Reserved
<1>4. ASSUME Unreported(j) PROVE Ended(j)
  BY <1>4, SMTT(30) DEF Ended, RowsStay, Unreported, admin, lates, TypeOK, Rows, Calling, BackFrom, Kinds
<1>5. ASSUME Die(j) PROVE Ended(j)
  BY <1>5, SMTT(30) DEF Ended, RowsStay, Die, rows, admin, lates, TypeOK, Rows, Calling, Kinds
<1>6. Ended(j)
  BY <1>1, <1>2, <1>3, <1>4, <1>5
<1> QED BY <1>6, EndedKeeps

\* The limit in force leaves no more room than the month's highest: what its
\* designs were charged in time is no more than what they were charged.
LEMMA FitsCeiling ==
    ASSUME TypeOK, Ceilings
    PROVE  /\ Fits("images") => Within(Sum(Pictures, ThisMonth) + 1, ceiling[month]["images"])
           /\ Fits("tokens") /\ ceiling[month]["tokens"] # 0 =>
                 Sum(Tokens, ThisMonth) + CallCeiling <= ceiling[month]["tokens"]
<1>1. month \in Months /\ ThisMonth = OfMonth(month)
  BY DEF TypeOK, ThisMonth
<1>2. Laxer(ceiling[month]["images"], limits["images"]) = ceiling[month]["images"]
      /\ Laxer(ceiling[month]["tokens"], limits["tokens"]) = ceiling[month]["tokens"]
  BY DEF Ceilings, Kinds
<1>3. /\ ceiling[month]["images"] \in Nat /\ ceiling[month]["tokens"] \in Nat
      /\ limits["images"] \in Nat /\ limits["tokens"] \in Nat
  BY <1>1, LimitsAreNat DEF Kinds
<1>4. /\ Sum(Pictures, ThisMonth) \in Int /\ Sum(Tokens, ThisMonth) \in Int
      /\ IsFiniteSet(ThisMonth) /\ ThisMonth \subseteq Jobs
      /\ \A x \in ThisMonth : Pictures[x] \in Int /\ Tokens[x] \in Int
  BY <1>1, UseIsInt
<1>5. \A x \in ThisMonth : /\ images[x] \in Int /\ Pictures[x] <= images[x]
                           /\ Charge[x] \in Int /\ Tokens[x] <= Charge[x]
  BY <1>4 DEF TypeOK, Pictures, Tokens, Charge
<1>6. Sum(Pictures, ThisMonth) <= Used("images") /\ Sum(Tokens, ThisMonth) <= Used("tokens")
  BY <1>4, <1>5, SumGrows DEF Used
<1>7. Used("images") \in Int /\ Used("tokens") \in Int
  BY <1>4, <1>5, SumIsInt DEF Used
<1> QED BY <1>2, <1>3, <1>4, <1>6, <1>7, QuotaAssumption DEF Fits, Within, Laxer, Asks

\* Whoever counts found room under the limit in force.
LEMMA CountKeepsUse ==
    ASSUME IInv, UseInv, NEW j \in Jobs, NEW k \in Kinds, Count(j, k)
    PROVE  UseInv'
<1> USE QuotaAssumption DEF IInv
<1>1. /\ lock = NoJob
      /\ (at[j] = "new" /\ k = "jobs") \/ (at[j] = "idle" /\ k # "jobs")
      /\ at' = [at EXCEPT ![j] = "counted"]
      /\ kind' = [kind EXCEPT ![j] = k]
      /\ room' = [room EXCEPT ![j] = Fits(k)]
      /\ UNCHANGED <<month, created, images, inputs, outputs, ceiling, lateImages, lateTokens>>
  BY DEF Count, rows, admin, lates
<1>2. Rows' = Rows
  BY <1>1 DEF Rows, TypeOK
<1>3. /\ \A m : OfMonth(m)' = OfMonth(m) /\ Quiet(m)' = Quiet(m)
      /\ ThisMonth' = ThisMonth /\ Quiet(month)' = Quiet(month) /\ Fresh'
      /\ Pictures' = Pictures /\ Tokens' = Tokens
  <2>1. \A m : OfMonth(m)' = OfMonth(m)
    BY <1>1, <1>2 DEF OfMonth
  <2>2. \A x \in Rows : Calling(x, "tokens")' <=> Calling(x, "tokens")
    BY <1>1 DEF Calling, TypeOK, Rows
  <2>3. \A m : Quiet(m)' = Quiet(m)
    BY <2>1, <2>2 DEF Quiet, OfMonth
  <2>4. ThisMonth' = ThisMonth /\ Quiet(month)' = Quiet(month)
    BY <1>1, <1>2, <2>2 DEF ThisMonth, Quiet, OfMonth
  <2>5. Fresh' /\ Pictures' = Pictures /\ Tokens' = Tokens
    BY <1>1, <1>2 DEF Fresh, UseInv, Pictures, Tokens
  <2> QED BY <2>1, <2>3, <2>4, <2>5
<1>4. \A m \in 0..month : UseLeft(m)'
  BY <1>1, <1>3 DEF UseInv, UseLeft
<1>5. UseRoom'
  <2> SUFFICES ASSUME NEW i \in ThisMonth, at'[i] = "counted", room'[i]
               PROVE  /\ kind'[i] = "images" => Within(Sum(Pictures, ThisMonth) + 1, ceiling[month]["images"])
                      /\ kind'[i] = "tokens" /\ ceiling[month]["tokens"] # 0 =>
                            Sum(Tokens, ThisMonth) + CallCeiling
                                <= ceiling[month]["tokens"] + MaxPrompt * Cardinality(Quiet(month) \ {i})
    BY <1>1, <1>3 DEF UseRoom
  <2>1. i = j
    BY <1>1 DEF CountsAlone, TypeOK, ThisMonth, OfMonth, Rows
  <2>2. Fits(k) /\ kind'[i] = k
    BY <1>1, <2>1 DEF TypeOK
  <2> DEFINE a == MaxPrompt * Cardinality(Quiet(month) \ {i})
  <2>3. month \in Months /\ ThisMonth = OfMonth(month)
    BY DEF TypeOK, ThisMonth
  <2>4. a \in Nat
    <3>1. Quiet(month) \ {i} \in SUBSET OfMonth(month)
      BY DEF Quiet
    <3> QED BY <2>3, <3>1, UseIsInt
  <2>5. Sum(Tokens, ThisMonth) \in Int /\ ceiling[month]["tokens"] \in Nat
    BY <2>3, UseIsInt
  <2> HIDE DEF a
  <2>6. kind'[i] = "tokens" /\ ceiling[month]["tokens"] # 0 =>
           Sum(Tokens, ThisMonth) + CallCeiling <= ceiling[month]["tokens"] + a
    <3>1. kind'[i] = "tokens" /\ ceiling[month]["tokens"] # 0 =>
             Sum(Tokens, ThisMonth) + CallCeiling <= ceiling[month]["tokens"]
      BY <2>2, FitsCeiling
    <3> QED BY <2>4, <2>5, <3>1
  <2> QED BY <2>2, <2>6, FitsCeiling DEF a
<1> QED BY <1>1, <1>3, <1>4, <1>5 DEF UseInv

\* A design that is admitted has used nothing, and is quiet.
LEMMA AdmitKeepsUse ==
    ASSUME IInv, UseInv, NEW j \in Jobs, Admit(j)
    PROVE  UseInv'
<1> USE QuotaAssumption DEF IInv
<1>1. /\ at[j] = "counted" /\ kind[j] = "jobs" /\ lock = j
      /\ created' = [created EXCEPT ![j] = month]
      /\ at' = [at EXCEPT ![j] = "idle"]
      /\ UNCHANGED <<month, images, inputs, outputs, kind, room, ceiling, lateImages, lateTokens>>
  BY DEF Admit, admin, lates, CountsAlone
<1>2. Rows' = Rows \cup {j} /\ j \notin Rows /\ month \in Months
  BY <1>1 DEF Rows, TypeOK
<1>3. Pictures' = Pictures /\ Tokens' = Tokens /\ Fresh'
  BY <1>1, <1>2 DEF Pictures, Tokens, Fresh, UseInv
<1>4. \A m : /\ m # month => OfMonth(m)' = OfMonth(m) /\ Quiet(m)' = Quiet(m)
             /\ m = month => /\ OfMonth(m)' = OfMonth(m) \cup {j} /\ j \notin OfMonth(m)
                             /\ Quiet(m)' = Quiet(m) \cup {j} /\ j \notin Quiet(m)
  <2>1. \A m : /\ m # month => OfMonth(m)' = OfMonth(m)
               /\ m = month => OfMonth(m)' = OfMonth(m) \cup {j} /\ j \notin OfMonth(m)
    BY <1>1, <1>2 DEF OfMonth, TypeOK, Rows
  <2>2. (\A x \in Rows : Calling(x, "tokens")' <=> Calling(x, "tokens")) /\ ~Calling(j, "tokens")'
    BY <1>1, <1>2 DEF Calling, TypeOK, Rows
  <2>3. \A m : OfMonth(m) \subseteq Rows
    BY DEF OfMonth
  <2> QED BY <2>1, <2>2, <2>3 DEF Quiet
<1>5. ASSUME NEW m \in 0..month PROVE UseLeft(m)'
  <2>1. m \in Months /\ month' = month
    BY <1>1, LimitsAreNat DEF Kinds
  <2>2. CASE m # month
    BY <1>1, <1>3, <1>4, <2>2 DEF UseInv, UseLeft
  <2>3. CASE m = month
    <3>1. Pictures[j] = 0 /\ Tokens[j] = 0
      BY <1>2 DEF Fresh, UseInv, Pictures, Tokens
    <3>2. \A x \in OfMonth(m) : Pictures[x] \in Int /\ Tokens[x] \in Int
      BY <2>1, UseIsInt
    <3>3. /\ Sum(Pictures, OfMonth(m) \cup {j}) = Sum(Pictures, OfMonth(m)) + Pictures[j]
          /\ Sum(Tokens, OfMonth(m) \cup {j}) = Sum(Tokens, OfMonth(m)) + Tokens[j]
      BY <1>4, <2>3, <3>1, <3>2, RowsFinite, SumAdds
    <3>4. Quiet(m) \in SUBSET OfMonth(m)
      BY DEF Quiet
    <3>5. IsFiniteSet(Quiet(m)) /\ Cardinality(Quiet(m)) \in Nat
      BY <2>1, <3>4, UseIsInt
    <3>6. Cardinality(Quiet(m)') = Cardinality(Quiet(m)) + 1
      BY <1>4, <2>3, <3>5, FS_AddElement
    <3> DEFINE a == MaxPrompt * Cardinality(Quiet(m))
               b == MaxPrompt * Cardinality(Quiet(m)')
               u == Sum(Pictures, OfMonth(m))
               w == Sum(Tokens, OfMonth(m))
    <3>7. a \in Nat /\ b = a + MaxPrompt
      BY <3>5, <3>6, Prompts
    <3>8. u \in Int /\ w \in Int /\ ceiling[m]["tokens"] \in Nat
      BY <2>1, UseIsInt
    <3>9. Within(u, ceiling[m]["images"]) /\ (ceiling[m]["tokens"] # 0 => w <= ceiling[m]["tokens"] + a)
      BY DEF UseInv, UseLeft
    <3>10. Sum(Pictures', OfMonth(m)') = u + 0 /\ Sum(Tokens', OfMonth(m)') = w + 0
      BY <1>3, <1>4, <2>3, <3>1, <3>3
    <3> HIDE DEF a, b, u, w
    <3>11. /\ Sum(Pictures', OfMonth(m)') = u /\ Sum(Tokens', OfMonth(m)') = w
           /\ ceiling[m]["tokens"] # 0 => w <= ceiling[m]["tokens"] + b
      BY <3>7, <3>8, <3>9, <3>10
    <3> QED BY <1>1, <3>9, <3>11 DEF UseLeft, b
  <2> QED BY <2>2, <2>3
<1>6. UseRoom'
  BY <1>1, <1>2 DEF UseRoom, CountsAlone, TypeOK, ThisMonth, OfMonth, Rows
<1> QED BY <1>1, <1>3, <1>5, <1>6 DEF UseInv

\* A reservation takes the room its count found, and its job, if it calls the model,
\* is no longer quiet; one made for a month gone by is set apart with its prompt.
LEMMA ReserveKeepsUse ==
    ASSUME IInv, TypeOK', UseInv, NEW j \in Jobs, Reserve(j)
    PROVE  UseInv'
<1> USE QuotaAssumption DEF IInv
<1>1. /\ at[j] = "counted" /\ lock = j /\ room[j]
      /\ \/ kind[j] = "images" /\ images' = [images EXCEPT ![j] = images[j] + 1] /\ outputs' = outputs
         \/ kind[j] = "tokens" /\ outputs' = [outputs EXCEPT ![j] = outputs[j] + CallCeiling] /\ images' = images
      /\ at' = [at EXCEPT ![j] = "calling"]
      /\ UNCHANGED <<month, created, inputs, kind, room, ceiling>>
  BY DEF Reserve, admin, CountsAlone
<1>2. /\ created[j] = month => UNCHANGED <<lateImages, lateTokens>>
      /\ created[j] # month /\ kind[j] = "images" =>
            lateImages' = [lateImages EXCEPT ![j] = lateImages[j] + 1] /\ lateTokens' = lateTokens
      /\ created[j] # month /\ kind[j] = "tokens" =>
            /\ lateTokens' = [lateTokens EXCEPT ![j] = lateTokens[j] + CallCeiling + MaxPrompt]
            /\ lateImages' = lateImages
  BY <1>1 DEF Reserve, LateFor, lates
<1>3. Rows' = Rows /\ j \in Rows /\ RowsStay /\ month \in Months
  BY <1>1 DEF Rows, TypeOK, RowsStay
<1>4. UseRoom'
  BY <1>1, <1>3 DEF UseRoom, CountsAlone, TypeOK, ThisMonth, OfMonth, Rows
<1>5. Fresh'
  <2>1. \A i \in Jobs : i # j => /\ images'[i] = images[i] /\ outputs'[i] = outputs[i]
                                 /\ lateImages'[i] = lateImages[i] /\ lateTokens'[i] = lateTokens[i]
    BY <1>1, <1>2 DEF TypeOK
  <2> QED BY <1>1, <1>3, <2>1 DEF Fresh, UseInv
<1>6. \A x \in Jobs : x # j => Pictures[x] = Pictures'[x] /\ Tokens[x] = Tokens'[x]
  BY <1>1, <1>2 DEF TypeOK, Pictures, Tokens
<1>7. /\ Calling(j, "tokens")' <=> kind[j] = "tokens"
      /\ ~Calling(j, "tokens")
      /\ \A x \in Jobs : x # j => (Calling(x, "tokens")' <=> Calling(x, "tokens"))
  BY <1>1 DEF Calling, TypeOK
<1>8. ASSUME NEW m \in 0..month PROVE UseLeft(m)'
  <2>1. m \in Months
    BY LimitsAreNat DEF Kinds
  <2> DEFINE S == OfMonth(m)
  <2>2. /\ S' = S /\ IsFiniteSet(S) /\ S \subseteq Jobs
        /\ \A x \in S : Pictures[x] \in Int /\ Tokens[x] \in Int /\ Pictures'[x] \in Int /\ Tokens'[x] \in Int
        /\ Sum(Pictures, S) \in Int /\ Sum(Tokens, S) \in Int
        /\ ceiling[m]["images"] \in Nat /\ ceiling[m]["tokens"] \in Nat
    BY <1>3, <2>1, UseIsInt, NextUseIsInt
  <2>3. CASE j \notin S
    <3>1. Quiet(m)' = Quiet(m)
      BY <1>7, <2>2, <2>3 DEF Quiet
    <3>2. Sum(Pictures, S) = Sum(Pictures', S) /\ Sum(Tokens, S) = Sum(Tokens', S)
      BY <1>6, <2>2, <2>3, SumSame
    <3> QED BY <1>1, <2>2, <3>1, <3>2 DEF UseLeft, UseInv
  <2>4. CASE j \in S
    <3>1. /\ Sum(Pictures', S) = Sum(Pictures, S) + Pictures'[j] - Pictures[j]
          /\ Sum(Tokens', S) = Sum(Tokens, S) + Tokens'[j] - Tokens[j]
      <4>1. \A x \in S : x # j => Pictures[x] = Pictures'[x] /\ Tokens[x] = Tokens'[x]
        BY <1>6, <2>2
      <4> HIDE DEF S
      <4>2. \A x \in S : Pictures[x] \in Int /\ Pictures'[x] \in Int /\ Tokens[x] \in Int /\ Tokens'[x] \in Int
        BY <2>2
      <4>3. Sum(Pictures', S) = Sum(Pictures, S) + Pictures'[j] - Pictures[j]
        BY <2>2, <2>4, <4>1, <4>2, SumChanges
      <4>4. Sum(Tokens', S) = Sum(Tokens, S) + Tokens'[j] - Tokens[j]
        BY <2>2, <2>4, <4>1, <4>2, SumChanges
      <4> QED BY <4>3, <4>4
    <3>2. /\ Pictures[j] = images[j] - lateImages[j] /\ Pictures'[j] = images'[j] - lateImages'[j]
          /\ Tokens[j] = inputs[j] + outputs[j] - lateTokens[j]
          /\ Tokens'[j] = inputs'[j] + outputs'[j] - lateTokens'[j]
          /\ images[j] \in Nat /\ inputs[j] \in Nat /\ outputs[j] \in Nat
          /\ lateImages[j] \in Nat /\ lateTokens[j] \in Nat
          /\ created[j] = m
      BY <2>4 DEF TypeOK, Pictures, Tokens, OfMonth
    <3> DEFINE t == kind[j] = "tokens"
               a == MaxPrompt * Cardinality(Quiet(m))
               c == MaxPrompt * Cardinality(Quiet(m) \ {j})
               b == MaxPrompt * Cardinality(Quiet(m)')
    <3>3. Quiet(m)' = IF t THEN Quiet(m) \ {j} ELSE Quiet(m)
      BY <1>7, <2>2, <2>4 DEF Quiet
    <3>4. a = c + MaxPrompt /\ c \in Nat
      <4>1. j \in Quiet(m) /\ Quiet(m) \in SUBSET S /\ Quiet(m) \ {j} \in SUBSET S
        BY <1>7, <2>4 DEF Quiet
      <4>2. IsFiniteSet(Quiet(m) \ {j}) /\ Cardinality(Quiet(m) \ {j}) \in Nat /\ (Quiet(m) \ {j}) \cup {j} = Quiet(m)
        BY <2>1, <4>1, UseIsInt
      <4>3. Cardinality(Quiet(m)) = Cardinality(Quiet(m) \ {j}) + 1
        BY <4>2, FS_AddElement
      <4> QED BY <4>2, <4>3, Prompts
    <3>5. b = IF t THEN c ELSE a
      BY <3>3
    <3> DEFINE u == Sum(Pictures, S)
               v == Sum(Pictures', S)
               w == Sum(Tokens, S)
               x == Sum(Tokens', S)
               L == ceiling[m]["images"]
               M == ceiling[m]["tokens"]
    <3>6. Within(u, L) /\ (M # 0 => w <= M + a) /\ u \in Int /\ w \in Int /\ L \in Nat /\ M \in Nat
      BY <2>2 DEF UseInv, UseLeft
    <3>7. kind[j] \in {"images", "tokens"}
      BY <1>1
    <3>8. Within(v, L) /\ (M # 0 => x <= M + b)
      <4>1. CASE m # month
        <5>1. CASE t
          <6>1. v = u /\ x = w - MaxPrompt
            BY <1>1, <1>2, <3>1, <3>2, <3>6, <4>1, <5>1 DEF TypeOK
          <6> HIDE DEF a, b, c, u, v, w, x, L, M
          <6> QED BY <3>4, <3>5, <3>6, <5>1, <6>1
        <5>2. CASE ~t
          <6>1. v = u /\ x = w
            BY <1>1, <1>2, <3>1, <3>2, <3>6, <3>7, <4>1, <5>2 DEF TypeOK
          <6> HIDE DEF a, b, c, u, v, w, x, L, M
          <6> QED BY <3>4, <3>5, <3>6, <5>2, <6>1
        <5> QED BY <5>1, <5>2
      <4>2. CASE m = month
        <5>1. /\ kind[j] = "images" => Within(u + 1, L)
              /\ t /\ M # 0 => w + CallCeiling <= M + c
          <6>1. ThisMonth = S
            BY <4>2 DEF ThisMonth
          <6> QED BY <1>1, <2>4, <4>2, <6>1 DEF UseInv, UseRoom
        <5>2. CASE t
          <6>1. v = u /\ x = w + CallCeiling
            BY <1>1, <1>2, <3>1, <3>2, <3>6, <4>2, <5>2 DEF TypeOK
          <6> HIDE DEF a, b, c, u, v, w, x, L, M
          <6> QED BY <3>4, <3>5, <3>6, <5>1, <5>2, <6>1
        <5>3. CASE ~t
          <6>1. v = u + 1 /\ x = w
            BY <1>1, <1>2, <3>1, <3>2, <3>6, <3>7, <4>2, <5>3 DEF TypeOK
          <6> HIDE DEF a, b, c, u, v, w, x, L, M
          <6> QED BY <3>4, <3>5, <3>6, <3>7, <5>1, <5>3, <6>1 
        <5> QED BY <5>2, <5>3
      <4> QED BY <4>1, <4>2
    <3> HIDE DEF t, a, c
    <3>9. ceiling' = ceiling
      BY <1>1
    <3> QED BY <2>2, <3>8, <3>9 DEF UseLeft
  <2> QED BY <2>3, <2>4
<1> QED BY <1>1, <1>4, <1>5, <1>8 DEF UseInv

\* A month's highest limit never gets stricter.
LEMMA SetLimitKeepsUse ==
    ASSUME IInv, UseInv, NEW k \in Kinds, NEW l \in LimitValues, SetLimit(k, l)
    PROVE  UseInv'
<1> USE QuotaAssumption DEF IInv
<1>1. /\ ceiling' = [ceiling EXCEPT ![month][k] = Laxer(ceiling[month][k], l)]
      /\ UNCHANGED <<month, created, images, inputs, outputs, at, kind, room, lateImages, lateTokens>>
  BY DEF SetLimit, rows, runs, lates
<1>2. /\ \A m : OfMonth(m)' = OfMonth(m) /\ Quiet(m)' = Quiet(m)
      /\ ThisMonth' = ThisMonth /\ Fresh' /\ Pictures' = Pictures /\ Tokens' = Tokens
  BY <1>1 DEF OfMonth, Rows, ThisMonth, Quiet, Calling, Fresh, UseInv, Pictures, Tokens
<1>3. ASSUME NEW m \in Months, NEW i \in Kinds
      PROVE  /\ ceiling[m][i] \in Nat /\ ceiling'[m][i] \in Nat
             /\ ceiling'[m][i] = 0 \/ (ceiling[m][i] # 0 /\ ceiling[m][i] <= ceiling'[m][i])
  <2>1. l \in Nat /\ ceiling[m][i] \in Nat /\ ceiling[month][k] \in Nat
    BY LimitsAreNat
  <2>2. ceiling'[m][i] = IF m = month /\ i = k THEN Laxer(ceiling[month][k], l) ELSE ceiling[m][i]
    BY <1>1 DEF TypeOK
  <2> QED BY <2>1, <2>2 DEF Laxer
<1>4. ASSUME NEW m \in Months
      PROVE  /\ ceiling[m]["images"] \in Nat /\ ceiling'[m]["images"] \in Nat
             /\ ceiling[m]["tokens"] \in Nat /\ ceiling'[m]["tokens"] \in Nat
             /\ \/ ceiling'[m]["images"] = 0
                \/ ceiling[m]["images"] # 0 /\ ceiling[m]["images"] <= ceiling'[m]["images"]
             /\ \/ ceiling'[m]["tokens"] = 0
                \/ ceiling[m]["tokens"] # 0 /\ ceiling[m]["tokens"] <= ceiling'[m]["tokens"]
  BY <1>3 DEF Kinds
<1>5. ASSUME NEW m \in 0..month PROVE UseLeft(m)'
  <2>1. m \in Months
    BY LimitsAreNat
  <2> DEFINE a == MaxPrompt * Cardinality(Quiet(m))
             u == Sum(Pictures, OfMonth(m))
             w == Sum(Tokens, OfMonth(m))
  <2>2. a \in Nat /\ u \in Int /\ w \in Int
    <3>1. Quiet(m) \in SUBSET OfMonth(m)
      BY DEF Quiet
    <3> QED BY <2>1, <3>1, UseIsInt
  <2>3. Within(u, ceiling[m]["images"]) /\ (ceiling[m]["tokens"] # 0 => w <= ceiling[m]["tokens"] + a)
    BY DEF UseInv, UseLeft
  <2> HIDE DEF a, u, w
  <2>4. Within(u, ceiling'[m]["images"]) /\ (ceiling'[m]["tokens"] # 0 => w <= ceiling'[m]["tokens"] + a)
    BY <1>4, <2>1, <2>2, <2>3 DEF Within
  <2> QED BY <1>2, <2>4 DEF UseLeft, a, u, w
<1>6. UseRoom'
  <2> SUFFICES ASSUME NEW i \in ThisMonth, at[i] = "counted", room[i]
               PROVE  /\ kind[i] = "images" => Within(Sum(Pictures, ThisMonth) + 1, ceiling'[month]["images"])
                      /\ kind[i] = "tokens" /\ ceiling'[month]["tokens"] # 0 =>
                            Sum(Tokens, ThisMonth) + CallCeiling
                                <= ceiling'[month]["tokens"] + MaxPrompt * Cardinality(Quiet(month) \ {i})
    <3>1. Quiet(month)' = Quiet(month)
      BY <1>1 DEF Quiet, OfMonth, Rows, Calling
    <3> QED BY <1>1, <1>2, <3>1 DEF UseRoom
  <2> DEFINE a == MaxPrompt * Cardinality(Quiet(month) \ {i})
             u == Sum(Pictures, ThisMonth)
             w == Sum(Tokens, ThisMonth)
  <2>1. month \in Months /\ ThisMonth = OfMonth(month)
    BY DEF TypeOK, ThisMonth
  <2>2. a \in Nat /\ u \in Int /\ w \in Int
    <3>1. Quiet(month) \ {i} \in SUBSET OfMonth(month)
      BY DEF Quiet
    <3> QED BY <2>1, <3>1, UseIsInt
  <2>3. /\ kind[i] = "images" => Within(u + 1, ceiling[month]["images"])
        /\ kind[i] = "tokens" /\ ceiling[month]["tokens"] # 0 => w + CallCeiling <= ceiling[month]["tokens"] + a
    BY DEF UseInv, UseRoom
  <2> HIDE DEF a, u, w
  <2>4. /\ kind[i] = "images" => Within(u + 1, ceiling'[month]["images"])
        /\ kind[i] = "tokens" /\ ceiling'[month]["tokens"] # 0 => w + CallCeiling <= ceiling'[month]["tokens"] + a
    BY <1>4, <2>1, <2>2, <2>3 DEF Within
  <2> QED BY <2>4 DEF a, u, w
<1> QED BY <1>1, <1>2, <1>5, <1>6 DEF UseInv

\* A new month has used nothing, and those gone by are as they were.
LEMMA MonthPassesKeepsUse ==
    ASSUME IInv, UseInv, MonthPasses
    PROVE  UseInv'
<1> USE QuotaAssumption DEF IInv
<1>1. /\ month < MaxMonth /\ month' = month + 1
      /\ ceiling' = [ceiling EXCEPT ![month + 1] = limits]
      /\ UNCHANGED <<created, images, inputs, outputs, at, kind, room, lateImages, lateTokens>>
  BY DEF MonthPasses, rows, runs, lates
<1>2. /\ \A m : OfMonth(m)' = OfMonth(m) /\ Quiet(m)' = Quiet(m)
      /\ Fresh' /\ Pictures' = Pictures /\ Tokens' = Tokens
  BY <1>1 DEF OfMonth, Rows, Quiet, Calling, Fresh, UseInv, Pictures, Tokens
<1>3. month \in Nat /\ month + 1 \in Months /\ 0..month \subseteq Months /\ MaxMonth \in Nat
  BY <1>1 DEF TypeOK, Months
<1>4. /\ \A m \in Months : m # month + 1 => ceiling'[m] = ceiling[m]
      /\ ceiling'[month + 1] = limits
  BY <1>1, <1>3 DEF TypeOK
<1>5. OfMonth(month + 1) = {} /\ Quiet(month + 1) = {}
  <2>1. \A i \in Rows : created[i] \in Nat /\ created[i] <= month
    BY DEF TypeOK, Months, NotAhead, Rows
  <2> QED BY <1>3, <2>1 DEF OfMonth, Quiet
<1>6. Sum(Pictures, {}) = 0 /\ Sum(Tokens, {}) = 0 /\ MaxPrompt * Cardinality({}) = 0
  BY FS_EmptySet, SumUnfolds
<1>7. limits["images"] \in Nat /\ limits["tokens"] \in Nat
  BY LimitsAreNat DEF Kinds
<1>8. ASSUME NEW m \in 0..(month + 1) PROVE UseLeft(m)'
  <2>1. CASE m = month + 1
    <3>1. OfMonth(m)' = {} /\ Quiet(m)' = {} /\ ceiling'[m] = limits
      BY <1>2, <1>4, <1>5, <2>1
    <3>2. Within(Sum(Pictures', OfMonth(m)'), ceiling'[m]["images"])
      BY <1>2, <1>6, <1>7, <3>1 DEF Within
    <3>3. Sum(Tokens', OfMonth(m)') <= ceiling'[m]["tokens"] + MaxPrompt * Cardinality(Quiet(m)')
      BY <1>2, <1>6, <1>7, <3>1
    <3> QED BY <3>2, <3>3 DEF UseLeft
  <2>2. CASE m # month + 1
    <3>1. m \in 0..month /\ ceiling'[m] = ceiling[m]
      BY <1>3, <1>4, <2>2
    <3> QED BY <1>2, <3>1 DEF UseInv, UseLeft
  <2> QED BY <2>1, <2>2
<1>9. UseRoom'
  <2>1. ThisMonth' = {}
    BY <1>1, <1>2, <1>5 DEF ThisMonth, OfMonth
  <2> QED BY <2>1 DEF UseRoom
<1> QED BY <1>1, <1>2, <1>8, <1>9 DEF UseInv

\* UseInv holds before the first request.
LEMMA InitUse == Init => UseInv
<1> SUFFICES ASSUME Init PROVE UseInv
  OBVIOUS
<1>1. Rows = {} /\ month = 0 /\ TypeOK
  BY InitHolds DEF Init, Rows, IInv
<1>2. \A m : OfMonth(m) = {} /\ Quiet(m) = {} /\ ThisMonth = {}
  BY <1>1 DEF OfMonth, Quiet, ThisMonth
<1>3. Sum(Pictures, {}) = 0 /\ Sum(Tokens, {}) = 0 /\ MaxPrompt * Cardinality({}) = 0
  <2>1. IsFiniteSet({}) /\ Cardinality({}) = 0
    BY FS_EmptySet
  <2>2. Sum(Pictures, {}) = 0 /\ Sum(Tokens, {}) = 0
    BY <2>1, SumUnfolds
  <2>3. MaxPrompt * 0 = 0
    BY QuotaAssumption
  <2> QED BY <2>1, <2>2, <2>3
<1>4. ASSUME NEW m \in 0..month PROVE UseLeft(m)
  <2>1. m \in Months
    BY <1>1, QuotaAssumption DEF Months
  <2>2. ceiling[m]["images"] \in Nat /\ ceiling[m]["tokens"] \in Nat
    BY <1>1, <2>1, UseIsInt
  <2>3. Within(0, ceiling[m]["images"]) /\ (ceiling[m]["tokens"] # 0 => 0 <= ceiling[m]["tokens"] + 0)
    BY <2>2 DEF Within
  <2> QED BY <1>2, <1>3, <2>3 DEF UseLeft
<1> QED BY <1>2, <1>4 DEF Init, UseInv, Fresh, UseRoom

\* No month has more pictures than the highest limit it had, nor more tokens than
\* that limit and one prompt a design, but for what designs reserved after it had
\* ended: however counts, calls, settlements, deaths, changes of the limits and
\* the end of the month interleave.
THEOREM UseWithinLimit == Spec => []UseBounded
<1>1. IInv /\ IInv' /\ UseInv /\ [Next]_vars => UseInv'
  <2> SUFFICES ASSUME IInv, IInv', UseInv, [Next]_vars PROVE UseInv'
    OBVIOUS
  <2>1. TypeOK'
    BY DEF IInv
  <2>2. CASE \E j \in Jobs : \E k \in Kinds : Count(j, k)
    BY <2>2, CountKeepsUse
  <2>3. CASE \E j \in Jobs : Refuse(j) \/ Admit(j) \/ Reserve(j) \/ Picture(j) \/ Settle(j) \/ Die(j)
    BY <2>1, <2>3, EndKeepsUse, AdmitKeepsUse, ReserveKeepsUse DEF Settle
  <2>4. CASE \E k \in Kinds : \E l \in LimitValues : SetLimit(k, l)
    BY <2>4, SetLimitKeepsUse
  <2>5. CASE MonthPasses
    BY <2>5, MonthPassesKeepsUse
  <2>6. CASE UNCHANGED vars
    BY <2>6 DEF vars, rows, runs, admin, lates, UseInv, Fresh, UseLeft, UseRoom, Quiet, Pictures, Tokens, Rows,
                OfMonth, ThisMonth, Calling
  <2> QED BY <2>2, <2>3, <2>4, <2>5, <2>6 DEF Next
<1>2. IInv /\ UseInv => UseBounded
  <2> SUFFICES ASSUME IInv, UseInv, NEW m \in 0..month
               PROVE  /\ Within(Sum(Pictures, OfMonth(m)), ceiling[m]["images"])
                      /\ ceiling[m]["tokens"] # 0 =>
                            Sum(Tokens, OfMonth(m)) <=
                                ceiling[m]["tokens"] + MaxPrompt * Cardinality(OfMonth(m))
    BY DEF UseBounded
  <2> DEFINE a == MaxPrompt * Cardinality(Quiet(m))
             b == MaxPrompt * Cardinality(OfMonth(m))
             w == Sum(Tokens, OfMonth(m))
  <2>1. TypeOK /\ UseLeft(m) /\ m \in Months
    BY LimitsAreNat DEF IInv, UseInv, Kinds
  <2>2. Quiet(m) \in SUBSET OfMonth(m) /\ OfMonth(m) \in SUBSET OfMonth(m)
    BY DEF Quiet
  <2>3. Cardinality(Quiet(m)) \in Nat /\ Cardinality(OfMonth(m)) \in Nat
        /\ Cardinality(Quiet(m)) <= Cardinality(OfMonth(m))
    BY <2>1, <2>2, UseIsInt
  <2>4. a \in Nat /\ b \in Nat /\ a <= b
    BY <2>3, Prompts
  <2>5. w \in Int /\ ceiling[m]["tokens"] \in Nat
    BY <2>1, UseIsInt
  <2>6. Within(Sum(Pictures, OfMonth(m)), ceiling[m]["images"])
        /\ (ceiling[m]["tokens"] # 0 => w <= ceiling[m]["tokens"] + a)
    BY <2>1 DEF UseLeft
  <2> HIDE DEF a, b, w
  <2>7. ceiling[m]["tokens"] # 0 => w <= ceiling[m]["tokens"] + b
    BY <2>4, <2>5, <2>6
  <2> QED BY <2>6, <2>7 DEF b, w
<1> QED BY InitHolds, InitUse, Invariance, <1>1, <1>2, PTL DEF Spec

=============================================================================
