------------------------------ MODULE AccountProofs ------------------------------
(***************************************************************************)
(* Sessions, for any number of requests, tokens and seconds: the types, that *)
(* a device signed out comes back only through a refresh already under way,  *)
(* that no device loses its session otherwise, and that a second live token  *)
(* is the work of overlapping refreshes.                                     *)
(*                                                                         *)
(* Credentials, for any number of requests in flight, of recovery codes and  *)
(* of mints: the types, that a used link stays gone, and that MFA stays on.  *)
(***************************************************************************)
EXTENDS AccountSessions, AccountCredentials, FiniteSetTheorems, TLAPS

(* A rotation of a token whose family ended knows it, or its token is late   *)
(* already.                                                                  *)
Overtaken(c) ==
    call[c].pc = "rotate" /\ family[call[c].tok] \in ended =>
        c \in crossed \/ call[c].tok \in late

SessionsInv ==
    /\ SessionsTypeOK
    /\ DeviceStaysSignedOut
    /\ \A c \in Calls : Overtaken(c)

-------------------------------------------------------------------------------
LEMMA Facts ==
    ASSUME SessionsTypeOK
    PROVE  /\ issued \in Nat /\ Issued \subseteq Tokens
           /\ MaxTokens \in Nat /\ MaxTime \in Nat
           /\ \A i \in Issued : i \in Nat /\ i <= issued /\ family[i] \in Issued
           /\ \A c \in Calls : call[c] \in Call \cup {NoCall}
           /\ \A c \in Calls : call[c].pc # "idle" =>
                 call[c] \in Call /\ call[c].tok \in Issued /\ call[c].at \in Time
<1>1. MaxTokens \in Nat /\ MaxTime \in Nat /\ issued \in 0..MaxTokens
    BY SessionsAssumption DEF SessionsTypeOK
<1>2. \A c \in Calls : call[c] \in Call \cup {NoCall}
    BY DEF SessionsTypeOK
<1>3. \A c \in Calls : call[c].pc # "idle" => call[c] # NoCall
    BY DEF NoCall
<1>4. \A i \in Issued : family[i] \in 1..i
    BY DEF SessionsTypeOK
<1>5. \A c \in Calls : call[c].pc # "idle" => call[c].tok \in Issued
    BY <1>3 DEF SessionsTypeOK
<1> QED
    BY <1>1, <1>2, <1>3, <1>4, <1>5 DEF Issued, Tokens, Call

LEMMA Lineage ==
    ASSUME NEW f PROVE /\ LiveIn(f) = {i \in live \cap Issued : family[i] = f}
                       /\ LiveIn(f)' = {i \in live' \cap Issued' : family'[i] = f}
BY DEF LiveIn, Family

(* A new token: the next row, in the family of an older one or its own.      *)
LEMMA Inserted ==
    ASSUME SessionsTypeOK, issued < MaxTokens, issued' = issued + 1,
           NEW f \in 1..(issued + 1),
           family' = [family EXCEPT ![issued + 1] = f]
    PROVE  /\ issued' \in 0..MaxTokens
           /\ Issued' = Issued \cup {issued + 1} /\ issued + 1 \notin Issued
           /\ family' \in [Tokens -> 0..MaxTokens]
           /\ \A i \in Issued' : family'[i] \in 1..i
           /\ \A i \in Issued : family'[i] = family[i]
           /\ family'[issued + 1] = f
<1>1. issued \in Nat /\ MaxTokens \in Nat /\ issued \in 0..MaxTokens
    BY Facts DEF SessionsTypeOK
<1>2. Issued' = Issued \cup {issued + 1} /\ issued + 1 \notin Issued /\ issued + 1 \in Tokens
    BY <1>1 DEF Issued, Tokens
<1>3. f \in 0..MaxTokens
    BY <1>1
<1>4. family' \in [Tokens -> 0..MaxTokens]
    BY <1>3 DEF SessionsTypeOK
<1>5. \A i \in Issued : i # issued + 1 /\ i \in Tokens
    BY <1>1 DEF Issued, Tokens
<1>6. (\A i \in Issued : family'[i] = family[i]) /\ family'[issued + 1] = f
    BY <1>2, <1>5 DEF SessionsTypeOK
<1> QED
    BY <1>1, <1>2, <1>4, <1>6 DEF SessionsTypeOK

-------------------------------------------------------------------------------
LEMMA SessionsInitInv == SessionsInit => SessionsInv
BY SessionsAssumption DEF SessionsInit, SessionsInv, SessionsTypeOK, DeviceStaysSignedOut, Overtaken,
    Issued, Tokens, Time, Call, NoCall

(* What a step may not do: take the last token of a device not ended.        *)
Kept == \A f \in Issued : LiveIn(f) # {} /\ LiveIn(f)' = {} => f \in ended'

LEMMA LoginInv == ASSUME SessionsInv, Login PROVE SessionsInv' /\ Kept
<1>1. SessionsTypeOK /\ issued + 1 \in 1..(issued + 1)
    BY Facts DEF SessionsInv
<1>2. /\ issued' \in 0..MaxTokens
      /\ Issued' = Issued \cup {issued + 1} /\ issued + 1 \notin Issued
      /\ family' \in [Tokens -> 0..MaxTokens]
      /\ \A i \in Issued' : family'[i] \in 1..i
      /\ \A i \in Issued : family'[i] = family[i]
      /\ family'[issued + 1] = issued + 1
    BY <1>1, Inserted DEF Login
<1>3. SessionsTypeOK'
    BY <1>1, <1>2 DEF Login, SessionsTypeOK
<1>4. DeviceStaysSignedOut'
    BY <1>1, <1>2 DEF Login, SessionsInv, SessionsTypeOK, DeviceStaysSignedOut
<1>5. \A c \in Calls : Overtaken(c)'
    BY <1>1, <1>2, Facts DEF Login, SessionsInv, Overtaken
<1>6. Kept
    BY <1>2, Lineage DEF Login, Kept
<1> QED
    BY <1>3, <1>4, <1>5, <1>6 DEF SessionsInv

LEMMA RotationInv ==
    ASSUME SessionsInv, NEW c \in Calls, RotationCommits(c) PROVE SessionsInv' /\ Kept
<1> DEFINE i == call[c].tok
<1>1. SessionsTypeOK /\ i \in Issued /\ family[i] \in 1..(issued + 1) /\ family[i] \in Issued
    BY Facts DEF SessionsInv, RotationCommits, Issued
<1>2. /\ issued' \in 0..MaxTokens
      /\ Issued' = Issued \cup {issued + 1} /\ issued + 1 \notin Issued
      /\ family' \in [Tokens -> 0..MaxTokens]
      /\ \A j \in Issued' : family'[j] \in 1..j
      /\ \A j \in Issued : family'[j] = family[j]
      /\ family'[issued + 1] = family[i]
    BY <1>1, Inserted DEF RotationCommits
<1>3. /\ \A d \in Calls : call'[d] = IF d = c THEN NoCall ELSE call[d]
      /\ call' \in [Calls -> Call \cup {NoCall}]
    BY <1>1 DEF RotationCommits, SessionsTypeOK
<1>4. SessionsTypeOK'
    BY <1>1, <1>2, <1>3 DEF RotationCommits, RotationHistory, SessionsTypeOK
<1>5. DeviceStaysSignedOut'
  <2> SUFFICES ASSUME NEW j \in live', family'[j] \in ended PROVE j \in late'
    BY DEF DeviceStaysSignedOut, RotationCommits
  <2>1. CASE j = issued + 1
    BY <2>1, <1>1, <1>2 DEF SessionsInv, Overtaken, RotationCommits, RotationHistory
  <2>2. CASE j \in live /\ j # issued + 1
    BY <2>2, <1>1, <1>2 DEF SessionsInv, SessionsTypeOK, DeviceStaysSignedOut, RotationCommits, RotationHistory
  <2> QED
    BY <2>1, <2>2 DEF RotationCommits
<1>6. \A d \in Calls : Overtaken(d)'
  <2> SUFFICES ASSUME NEW d \in Calls, d # c, call[d].pc = "rotate" PROVE Overtaken(d)'
    BY <1>3 DEF Overtaken, NoCall
  <2>1. call[d].tok \in Issued
    BY <1>1, Facts
  <2> QED
    BY <2>1, <1>2, <1>3 DEF SessionsInv, Overtaken, RotationCommits, RotationHistory
<1>7. Kept
  <2> SUFFICES ASSUME NEW f \in Issued, LiveIn(f) # {}, LiveIn(f)' = {} PROVE FALSE
    BY DEF Kept
  <2>1. PICK j \in live \cap Issued : family[j] = f
    BY Lineage
  <2>2. CASE j = i
    BY <2>1, <2>2, <1>2, Lineage DEF RotationCommits
  <2>3. CASE j # i
    BY <2>1, <2>3, <1>2, Lineage DEF RotationCommits
  <2> QED
    BY <2>2, <2>3
<1> QED
    BY <1>4, <1>5, <1>6, <1>7 DEF SessionsInv

(* A step of one request that leaves the rows alone.                         *)
LEMMA CallInv ==
    ASSUME SessionsInv, NEW c \in Calls, NEW q \in Call \cup {NoCall},
           q # NoCall => q.tok \in Issued,
           q.pc = "rotate" => q.tok \in live,
           call' = [call EXCEPT ![c] = q],
           crossed' \subseteq crossed, crossed \ {c} \subseteq crossed',
           marker' \in 0..MaxTime,
           UNCHANGED <<issued, family, live, clock, ended, late, forks>>
    PROVE  SessionsInv' /\ Kept
<1>1. \A d \in Calls : call'[d] = IF d = c THEN q ELSE call[d]
    BY DEF SessionsInv, SessionsTypeOK
<1>2. Issued' = Issued
    BY DEF Issued
<1>3. SessionsTypeOK'
    BY <1>1, <1>2 DEF SessionsInv, SessionsTypeOK
<1>4. DeviceStaysSignedOut'
    BY DEF SessionsInv, DeviceStaysSignedOut
<1>5. \A d \in Calls : Overtaken(d)'
  <2> SUFFICES ASSUME NEW d \in Calls PROVE Overtaken(d)'
    OBVIOUS
  <2>1. CASE d = c
    BY <2>1, <1>1 DEF SessionsInv, DeviceStaysSignedOut, Overtaken
  <2>2. CASE d # c
    BY <2>2, <1>1 DEF SessionsInv, Overtaken
  <2> QED
    BY <2>1, <2>2
<1>6. Kept
    BY <1>2, Lineage DEF Kept
<1> QED
    BY <1>3, <1>4, <1>5, <1>6 DEF SessionsInv

(* Families of F end, and their live tokens with them; a request may turn to *)
(* something else than a rotation.                                           *)
LEMMA FamilyEnds ==
    ASSUME SessionsInv, NEW F \in SUBSET Issued, End(F),
           live' \subseteq live,
           \A i \in live' : family[i] \notin F,
           \A i \in live : i \notin live' =>
               family[i] \in F \/ (\E j \in live' : family[j] = family[i]),
           call' \in [Calls -> Call \cup {NoCall}],
           \A c \in Calls : call'[c] = call[c] \/ (call'[c].pc = "mark" /\ call'[c].tok \in Issued),
           UNCHANGED <<issued, family, marker, clock, late, forks>>
    PROVE  SessionsInv' /\ Kept
<1>1. SessionsTypeOK /\ Issued' = Issued
    BY DEF SessionsInv, Issued
<1>2. SessionsTypeOK'
    BY <1>1 DEF SessionsTypeOK, End
<1>3. DeviceStaysSignedOut'
    BY DEF SessionsInv, DeviceStaysSignedOut, End
<1>4. \A c \in Calls : Overtaken(c)'
    BY DEF SessionsInv, Overtaken, End
<1>5. Kept
  <2> SUFFICES ASSUME NEW f \in Issued, LiveIn(f) # {}, LiveIn(f)' = {} PROVE f \in ended'
    BY DEF Kept
  <2>1. PICK i \in live \cap Issued : family[i] = f
    BY Lineage
  <2>2. \A j \in live' : j \in Issued /\ family'[j] # f
    BY <1>1, Lineage DEF SessionsTypeOK
  <2> QED
    BY <2>1, <2>2 DEF End
<1> QED
    BY <1>2, <1>3, <1>4, <1>5 DEF SessionsInv

LEMMA SessionsNextInv ==
    ASSUME SessionsInv, [SessionsNext]_sVars PROVE SessionsInv' /\ [Kept]_sVars
<1>0. SessionsTypeOK
    BY DEF SessionsInv
<1>1. CASE UNCHANGED sVars
    BY <1>1 DEF sVars, SessionsInv, SessionsTypeOK, DeviceStaysSignedOut, Overtaken, Issued
<1>2. CASE Tick
  <2>1. SessionsInv'
    BY <1>2, Facts DEF Tick, SessionsInv, SessionsTypeOK, DeviceStaysSignedOut, Overtaken, Issued, Time
  <2>2. Kept
    BY <1>2, Lineage DEF Tick, Kept, Issued
  <2> QED
    BY <2>1, <2>2
<1>3. CASE RevokeAll
  <2>1. {family[i] : i \in Issued} \subseteq Issued
    BY <1>0, Facts
  <2>2. \A i \in live : family[i] \in {family[j] : j \in Issued}
    BY <1>0 DEF SessionsTypeOK
  <2>3. call' \in [Calls -> Call \cup {NoCall}] /\ \A c \in Calls : call'[c] = call[c]
    BY <1>0, <1>3 DEF RevokeAll, SessionsTypeOK
  <2> QED
    BY <2>1, <2>2, <2>3, <1>3, FamilyEnds DEF RevokeAll
<1>4. ASSUME NEW i \in Issued, RevokeDevice(i) PROVE SessionsInv' /\ Kept
  <2>1. {family[i]} \subseteq Issued
    BY <1>0, Facts
  <2>2. \A j \in live : j \in Issued /\ (j \in LiveIn(family[i]) <=> family[j] = family[i])
    BY <1>0, Lineage DEF SessionsTypeOK
  <2>3. call' \in [Calls -> Call \cup {NoCall}] /\ \A c \in Calls : call'[c] = call[c]
    BY <1>0, <1>4 DEF RevokeDevice, SessionsTypeOK
  <2> QED
    BY <2>1, <2>2, <2>3, <1>4, FamilyEnds DEF RevokeDevice
<1>5. ASSUME NEW c \in Calls, ReuseCommits(c) PROVE SessionsInv' /\ Kept
  <2> DEFINE f == family[call[c].tok]
  <2>1. call[c] \in Call /\ call[c].tok \in Issued /\ f \in Issued
    BY <1>0, <1>5, Facts DEF ReuseCommits
  <2>2. \A j \in live : j \in Issued /\ (j \in LiveIn(f) <=> family[j] = f)
    BY <1>0, Lineage DEF SessionsTypeOK
  <2>3. [call[c] EXCEPT !.pc = "mark"] \in Call /\ [call[c] EXCEPT !.pc = "mark"].tok = call[c].tok
        /\ [call[c] EXCEPT !.pc = "mark"].pc = "mark"
    BY <2>1 DEF Call
  <2>4. /\ call' \in [Calls -> Call \cup {NoCall}]
        /\ \A d \in Calls : call'[d] = call[d] \/ (call'[d].pc = "mark" /\ call'[d].tok \in Issued)
    BY <1>0, <1>5, <2>1, <2>3 DEF ReuseCommits, SessionsTypeOK
  <2> QED
    BY <2>1, <2>2, <2>4, <1>5, FamilyEnds DEF ReuseCommits
<1>6. ASSUME NEW c \in Calls, NEW i \in Issued, Logout(c, i) PROVE SessionsInv' /\ Kept
  <2> DEFINE F == IF LiveIn(family[i]) \subseteq {i} THEN {family[i]} ELSE {}
             q == [pc |-> "mark", tok |-> i, at |-> clock]
  <2>1. F \subseteq Issued /\ i \in Tokens
    BY <1>0, Facts
  <2>2. \A j \in live : j \in Issued /\ (j \in LiveIn(family[i]) <=> family[j] = family[i])
    BY <1>0, Lineage DEF SessionsTypeOK
  <2>3. q \in Call /\ q.pc = "mark" /\ q.tok = i
    BY <1>0, <2>1 DEF Call, SessionsTypeOK
  <2>4. /\ call' \in [Calls -> Call \cup {NoCall}]
        /\ \A d \in Calls : call'[d] = call[d] \/ (call'[d].pc = "mark" /\ call'[d].tok \in Issued)
    BY <1>0, <1>6, <2>3 DEF Logout, SessionsTypeOK
  <2>5. End(F) /\ live' = live \ {i} /\ UNCHANGED <<issued, family, marker, clock, late, forks>>
    BY <1>6 DEF Logout
  <2>6. \A j \in live' : family[j] \notin F
    BY <2>2, <2>5
  <2>7. \A j \in live : j \notin live' => family[j] \in F \/ (\E k \in live' : family[k] = family[j])
    <3>1. CASE LiveIn(family[i]) \subseteq {i}
        BY <3>1, <2>5
    <3>2. CASE ~(LiveIn(family[i]) \subseteq {i})
      <4>1. PICK k \in LiveIn(family[i]) : k # i
        BY <3>2
      <4>2. k \in live' /\ family[k] = family[i]
        BY <4>1, <2>2, <2>5, Lineage
      <4> QED
        BY <4>2, <2>5
    <3> QED
        BY <3>1, <3>2
  <2> HIDE DEF F, q
  <2> QED
    BY <2>1, <2>4, <2>5, <2>6, <2>7, FamilyEnds
<1>7. ASSUME NEW c \in Calls, NEW i \in Issued, RefreshReads(c, i) PROVE SessionsInv' /\ Kept
  <2> DEFINE q == [pc |-> IF i \in live THEN "rotate" ELSE "reuse", tok |-> i, at |-> clock]
  <2>1. q \in Call /\ q.tok = i /\ (q.pc = "rotate" => i \in live)
    BY <1>0, Facts DEF Call, SessionsTypeOK
  <2>2. /\ call' = [call EXCEPT ![c] = q] /\ crossed' = crossed /\ marker' \in 0..MaxTime
        /\ UNCHANGED <<issued, family, live, clock, ended, late, forks>>
    BY <1>0, <1>7 DEF RefreshReads, SessionsTypeOK
  <2> HIDE DEF q
  <2> QED
    BY <2>1, <2>2, CallInv
<1>8. ASSUME NEW c \in Calls, RefreshAborts(c) \/ MarkWrites(c) PROVE SessionsInv' /\ Kept
  <2>1. NoCall.pc # "rotate"
    BY DEF NoCall
  <2>2. CASE RefreshAborts(c)
    <3>1. marker' \in 0..MaxTime
        BY <1>0, <2>2 DEF RefreshAborts, SessionsTypeOK
    <3> QED
        BY <3>1, <2>1, <2>2, CallInv DEF RefreshAborts
  <2>3. CASE MarkWrites(c)
    <3>1. call[c].at \in Time
        BY <1>0, <2>3, Facts DEF MarkWrites
    <3>2. marker' \in 0..MaxTime
        BY <1>0, <2>3, <3>1 DEF MarkWrites, SessionsTypeOK, Time
    <3> QED
        BY <3>2, <2>1, <2>3, CallInv DEF MarkWrites
  <2> QED
    BY <1>8, <2>2, <2>3
<1> QED
    BY <1>1, <1>2, <1>3, <1>4, <1>5, <1>6, <1>7, <1>8, LoginInv, RotationInv DEF SessionsNext

-------------------------------------------------------------------------------
(* The two sets a device's tokens are counted with.                          *)
Forked(f) == forks \cap Family(f)

LEMMA Finite ==
    ASSUME SessionsTypeOK, NEW f
    PROVE  /\ IsFiniteSet(LiveIn(f)) /\ Cardinality(LiveIn(f)) \in Nat
           /\ IsFiniteSet(Forked(f)) /\ Cardinality(Forked(f)) \in Nat
<1>1. IsFiniteSet(Issued)
    BY Facts, FS_Interval DEF Issued
<1>2. LiveIn(f) \in SUBSET Issued /\ Forked(f) \in SUBSET Issued
    BY DEF LiveIn, Forked, Family
<1> QED
    BY <1>1, <1>2, FS_Subset, FS_CardinalityType

LEMMA LoginForks == ASSUME SessionsInv, OneLiveUnlessForked, Login PROVE OneLiveUnlessForked'
<1>1. SessionsTypeOK /\ SessionsTypeOK' /\ issued + 1 \in 1..(issued + 1)
    BY LoginInv, Facts DEF SessionsInv
<1>2. /\ Issued' = Issued \cup {issued + 1} /\ issued + 1 \notin Issued
      /\ \A i \in Issued : family'[i] = family[i]
      /\ family'[issued + 1] = issued + 1
    BY <1>1, Inserted DEF Login
<1> SUFFICES ASSUME NEW f \in Issued' PROVE Cardinality(LiveIn(f)') <= 1 + Cardinality(Forked(f)')
    BY DEF OneLiveUnlessForked, Forked
<1>3. CASE f \in Issued
  <2>1. LiveIn(f)' = LiveIn(f) /\ Forked(f)' = Forked(f)
    BY <1>1, <1>2, <1>3 DEF Login, LiveIn, Forked, Family, SessionsTypeOK
  <2> QED
    BY <1>3, <2>1 DEF OneLiveUnlessForked, Forked
<1>4. CASE f = issued + 1
  <2>1. \A i \in Issued : family[i] \in Issued
    BY <1>1, Facts
  <2>2. f \notin Issued /\ Issued' = Issued \cup {f} /\ family'[f] = f
    BY <1>2, <1>4
  <2>3. live' = live \cup {f} /\ live \subseteq Issued /\ forks' = forks /\ forks \subseteq Issued
    BY <1>1, <1>4 DEF Login, SessionsTypeOK
  <2>4. \A i \in Issued : family'[i] # f
    BY <1>2, <2>1, <2>2
  <2>5. LiveIn(f)' = {f} /\ Forked(f)' = {}
    BY <2>2, <2>3, <2>4 DEF LiveIn, Forked, Family
  <2>6. Cardinality(LiveIn(f)') = 1 /\ Cardinality(Forked(f)') = 0
    BY <2>5, FS_Singleton, FS_EmptySet
  <2> QED
    BY <2>6
<1> QED
    BY <1>2, <1>3, <1>4

LEMMA RotationForks ==
    ASSUME SessionsInv, OneLiveUnlessForked, NEW c \in Calls, RotationCommits(c)
    PROVE  OneLiveUnlessForked'
<1> DEFINE i == call[c].tok
           n == issued + 1
           g == family[i]
<1>1. SessionsTypeOK /\ i \in Issued /\ g \in 1..n /\ g \in Issued
    BY Facts DEF SessionsInv, RotationCommits, Issued
<1>2. /\ Issued' = Issued \cup {n} /\ n \notin Issued
      /\ \A j \in Issued : family'[j] = family[j] /\ family[j] \in Issued
      /\ family'[n] = g
    BY <1>1, Inserted, Facts DEF RotationCommits
<1>3. live' = (live \ {i}) \cup {n} /\ live \subseteq Issued /\ forks \subseteq Issued
    BY <1>1 DEF RotationCommits, SessionsTypeOK
<1>4. forks' = IF i \in live THEN forks ELSE forks \cup {n}
    BY DEF RotationCommits, RotationHistory
<1> HIDE DEF i, n, g
<1> SUFFICES ASSUME NEW f \in Issued' PROVE Cardinality(LiveIn(f)') <= 1 + Cardinality(Forked(f)')
    BY DEF OneLiveUnlessForked, Forked
<1>5. CASE f \in Issued /\ f # g
  <2>1. family[i] = g
    BY DEF g
  <2>2. LiveIn(f)' = LiveIn(f) /\ Forked(f)' = Forked(f)
    BY <1>1, <1>2, <1>3, <1>4, <1>5, <2>1 DEF LiveIn, Forked, Family
  <2> QED
    BY <1>5, <2>2 DEF OneLiveUnlessForked, Forked
<1>6. CASE f = n
  <2>1. LiveIn(f)' = {} /\ Forked(f)' = {}
    BY <1>1, <1>2, <1>6 DEF LiveIn, Forked, Family
  <2> QED
    BY <2>1, FS_EmptySet
<1>7. CASE f = g
  <2>1. Cardinality(LiveIn(f)) <= 1 + Cardinality(Forked(f))
    BY <1>1, <1>7 DEF OneLiveUnlessForked, Forked
  <2>2. /\ IsFiniteSet(LiveIn(f)) /\ Cardinality(LiveIn(f)) \in Nat
        /\ IsFiniteSet(Forked(f)) /\ Cardinality(Forked(f)) \in Nat
    BY <1>1, Finite
  <2>3. n \notin LiveIn(f) /\ n \notin Forked(f)
    BY <1>2, <1>7 DEF LiveIn, Forked, Family
  <2>4. LiveIn(f)' = (LiveIn(f) \ {i}) \cup {n}
    BY <1>1, <1>2, <1>3, <1>7 DEF LiveIn, Family
  <2>5. CASE i \in live
    <3>1. i \in LiveIn(f)
        BY <1>1, <1>7, <2>5 DEF g, LiveIn, Family
    <3>2. IsFiniteSet(LiveIn(f) \ {i}) /\ Cardinality(LiveIn(f) \ {i}) = Cardinality(LiveIn(f)) - 1
        BY <2>2, <3>1, FS_RemoveElement
    <3>3. Cardinality(LiveIn(f)') = (Cardinality(LiveIn(f)) - 1) + 1
        BY <2>3, <2>4, <3>2, FS_AddElement
    <3>4. Forked(f)' = Forked(f)
        BY <1>2, <1>3, <1>4, <1>7, <2>5 DEF Forked, Family
    <3> QED
        BY <1>7, <2>1, <2>2, <3>3, <3>4
  <2>6. CASE i \notin live
    <3>1. LiveIn(f)' = LiveIn(f) \cup {n}
        BY <2>4, <2>6 DEF LiveIn
    <3>2. Forked(f)' = Forked(f) \cup {n}
        BY <1>2, <1>3, <1>4, <1>7, <2>6 DEF Forked, Family
    <3>3. /\ Cardinality(LiveIn(f)') = Cardinality(LiveIn(f)) + 1
          /\ Cardinality(Forked(f)') = Cardinality(Forked(f)) + 1
        BY <2>2, <2>3, <3>1, <3>2, FS_AddElement
    <3> QED
        BY <1>7, <2>1, <2>2, <3>3
  <2> QED
    BY <2>5, <2>6
<1> QED
    BY <1>2, <1>5, <1>6, <1>7

(* No other step adds a token.                                               *)
LEMMA RevocationForks ==
    ASSUME SessionsInv, OneLiveUnlessForked, live' \subseteq live,
           UNCHANGED <<issued, family, forks>>
    PROVE  OneLiveUnlessForked'
<1>1. SessionsTypeOK
    BY DEF SessionsInv
<1> SUFFICES ASSUME NEW f \in Issued PROVE Cardinality(LiveIn(f)') <= 1 + Cardinality(Forked(f)')
    BY DEF OneLiveUnlessForked, Forked, Issued
<1>2. Forked(f)' = Forked(f) /\ LiveIn(f)' \in SUBSET LiveIn(f)
    BY DEF Forked, LiveIn, Family, Issued
<1>3. /\ IsFiniteSet(LiveIn(f)) /\ Cardinality(LiveIn(f)) \in Nat /\ Cardinality(Forked(f)) \in Nat
    BY <1>1, Finite
<1>4. /\ IsFiniteSet(LiveIn(f)') /\ Cardinality(LiveIn(f)') <= Cardinality(LiveIn(f))
    BY <1>2, <1>3, FS_Subset
<1>5. Cardinality(LiveIn(f)') \in Nat
    BY <1>4, FS_CardinalityType
<1>6. Cardinality(LiveIn(f)) <= 1 + Cardinality(Forked(f))
    BY DEF OneLiveUnlessForked, Forked
<1> QED
    BY <1>2, <1>3, <1>4, <1>5, <1>6

LEMMA ForksNext ==
    ASSUME SessionsInv, OneLiveUnlessForked, [SessionsNext]_sVars PROVE OneLiveUnlessForked'
<1>1. CASE live' \subseteq live /\ UNCHANGED <<issued, family, forks>>
    BY <1>1, RevocationForks
<1>2. ASSUME UNCHANGED sVars \/ RevokeAll \/ Tick \/ (\E i \in Issued : RevokeDevice(i))
    PROVE  live' \subseteq live /\ UNCHANGED <<issued, family, forks>>
    BY <1>2 DEF sVars, RevokeAll, Tick, RevokeDevice
<1>3. ASSUME NEW c \in Calls,
             \/ \E i \in Issued : RefreshReads(c, i) \/ Logout(c, i)
             \/ RefreshAborts(c) \/ ReuseCommits(c) \/ MarkWrites(c)
    PROVE  live' \subseteq live /\ UNCHANGED <<issued, family, forks>>
    BY <1>3 DEF RefreshReads, Logout, RefreshAborts, ReuseCommits, MarkWrites
<1> QED
    BY <1>1, <1>2, <1>3, LoginForks, RotationForks DEF SessionsNext

-------------------------------------------------------------------------------
THEOREM SessionsInvariant == SessionsSpec => []SessionsInv
BY SessionsInitInv, SessionsNextInv, PTL DEF SessionsSpec

(* Rows, requests and histories are well formed:                             *)
(* AccountSessions!SessionsTypeOK.                                           *)
THEOREM SessionsTypes == SessionsSpec => []SessionsTypeOK
<1>1. SessionsInv => SessionsTypeOK
    BY DEF SessionsInv
<1> QED
    BY <1>1, SessionsInvariant, PTL

(* A device signed out has a live token again only through a refresh that    *)
(* was under way.                                                            *)
THEOREM SignedOutStays == SessionsSpec => []DeviceStaysSignedOut
<1>1. SessionsInv => DeviceStaysSignedOut
    BY DEF SessionsInv
<1> QED
    BY <1>1, SessionsInvariant, PTL

(* No device loses its last live token but by being signed out.              *)
THEOREM SessionIsKept == SessionsSpec => SessionKept
<1>1. SessionsInv /\ [SessionsNext]_sVars =>
          [\A f \in Issued : LiveIn(f) # {} /\ LiveIn(f)' = {} => f \in ended']_sVars
    BY SessionsNextInv DEF Kept
<1> QED
    BY <1>1, SessionsInvariant, PTL DEF SessionsSpec, SessionKept

(* A device has more live tokens than one only by refreshes that overlapped. *)
THEOREM OneLiveProved == SessionsSpec => []OneLiveUnlessForked
<1>1. SessionsInit => OneLiveUnlessForked
    BY FS_EmptySet DEF SessionsInit, OneLiveUnlessForked, Issued
<1> QED
    BY <1>1, SessionsInvariant, ForksNext, PTL DEF SessionsSpec

-------------------------------------------------------------------------------
(* The credentials of an account.                                            *)
(* A request consumes a link only if it loaded one, and renews codes only    *)
(* of an enrolled account.                                                   *)
Loaded(a) ==
    /\ ask[a].kind = "reset" => ask[a].copy.reset # 0
    /\ ask[a].kind \in {"accept", "loginInvite"} => ask[a].copy.invite # 0
    /\ ask[a].kind \in {"rotate", "recover"} => ask[a].copy.mfa = "on"

(* What a row, or a copy of it, holds is among the m first mints, and an     *)
(* enrolled one has a secret and a batch.                                    *)
Sound(r, m) ==
    /\ r.reset <= m /\ r.invite <= m /\ r.secret <= m /\ r.codes.id <= m
    /\ r.mfa = "on" => r.secret # 0 /\ r.codes.id # 0

(* Enrolment is for good, so an old copy never knows more of it.             *)
CredentialsInv ==
    /\ CredentialsTypeOK
    /\ used \subseteq {"reset", "invite"} \X (1..minted)
    /\ Sound(row, minted)
    /\ \A a \in Askers :
          Loaded(a) /\ Sound(ask[a].copy, minted) /\ (ask[a].copy.mfa = "on" => row.mfa = "on")
    /\ UsedLinksGone

-------------------------------------------------------------------------------
LEMMA MintedIsNat == Minted \subseteq Nat /\ 0 \in Minted
BY CredentialsAssumption DEF Minted

LEMMA NoAskTyped == NoAsk \in Ask /\ NoRowYet \in Row /\ Registered \in Row
BY MintedIsNat DEF NoAsk, Ask, NoRowYet, Registered, Row, NoBatch, Batch

(* The columns of a row a request leaves.                                    *)
LEMMA AssignedShape ==
    ASSUME NEW kind \in Kinds \ {"recover"}, NEW r \in Row, NEW n \in Nat,
           kind \in Minting => n \in Minted
    PROVE  LET s == Assigned(kind, r, n) IN
           /\ s \in Row
           /\ s.reset = IF kind = "forgot" THEN n ELSE IF kind = "reset" THEN 0 ELSE r.reset
           /\ s.invite = IF kind \in {"invite", "resend"} THEN n
                         ELSE IF kind \in {"accept", "loginInvite"} THEN 0 ELSE r.invite
           /\ s.mfa = IF kind = "finalize" THEN "on" ELSE r.mfa
           /\ s.secret = IF kind = "finalize" THEN n ELSE r.secret
           /\ s.codes = IF kind \in {"finalize", "rotate"}
                          THEN [id |-> n, spent |-> {}] ELSE r.codes
<1>1. n \in Minted => [id |-> n, spent |-> {}] \in Batch
    BY DEF Batch
<1> QED
    BY <1>1, MintedIsNat DEF Kinds, Minting, Assigned, Row, ResetDone, Enrolled

(* The columns of a row after a commit.                                      *)
LEMMA CommittedShape ==
    ASSUME row \in Row, NEW copy \in Row, NEW new \in Row
    PROVE  LET s == Committed(copy, new) IN
           /\ s \in Row
           /\ s.reset = IF new.reset # copy.reset THEN new.reset ELSE row.reset
           /\ s.invite = IF new.invite # copy.invite THEN new.invite ELSE row.invite
           /\ s.mfa = IF new.mfa # copy.mfa THEN new.mfa ELSE row.mfa
           /\ s.secret = IF new.secret # copy.secret THEN new.secret ELSE row.secret
           /\ s.codes = IF new.codes # copy.codes THEN new.codes ELSE row.codes
BY DEF Committed, Row

-------------------------------------------------------------------------------
LEMMA CredentialsInitInv == CredentialsInit => CredentialsInv
<1> SUFFICES ASSUME CredentialsInit PROVE CredentialsInv
    OBVIOUS
<1>1. \A a \in Askers : ask[a] = NoAsk
    BY DEF CredentialsInit
<1>2. CredentialsTypeOK
  <2>1. row \in Row /\ row.mfa = "off"
    <3>1. NoRowYet.mfa = "off" /\ Registered.mfa = "off"
        BY DEF NoRowYet, Registered
    <3> QED
        BY <3>1, NoAskTyped DEF CredentialsInit
  <2>2. ask \in [Askers -> Ask]
    BY NoAskTyped DEF CredentialsInit
  <2> QED
    BY <2>1, <2>2, MintedIsNat DEF CredentialsInit, CredentialsTypeOK
<1>3. Sound(row, minted) /\ Sound(NoRowYet, minted)
    BY DEF CredentialsInit, Sound, NoRowYet, Registered, NoBatch
<1> QED
    BY <1>1, <1>2, <1>3 DEF CredentialsInit, CredentialsInv, Loaded, UsedLinksGone, NoAsk, NoRowYet

(* Loading the row: the new copy is the row.                                 *)
LEMMA LoadInv ==
    ASSUME CredentialsInv, NEW a \in Askers, NEW q \in Ask,
           q.copy = row,
           q.kind = "reset" => row.reset # 0,
           q.kind \in {"accept", "loginInvite"} => row.invite # 0,
           q.kind \in {"rotate", "recover"} => row.mfa = "on",
           ask' = [ask EXCEPT ![a] = q], UNCHANGED <<row, minted, lapsed, used>>
    PROVE  CredentialsInv'
<1>1. CredentialsTypeOK'
    BY DEF CredentialsInv, CredentialsTypeOK
<1>2. \A b \in Askers : ask'[b] = IF b = a THEN q ELSE ask[b]
    BY DEF CredentialsInv, CredentialsTypeOK
<1> QED
    BY <1>1, <1>2 DEF CredentialsInv, Sound, Loaded, UsedLinksGone

(* Ending a request without a write.                                         *)
LEMMA EndInv ==
    ASSUME CredentialsInv, NEW a \in Askers,
           ask' = [ask EXCEPT ![a] = NoAsk], UNCHANGED <<row, minted, lapsed, used>>
    PROVE  CredentialsInv'
<1>1. CredentialsTypeOK'
    BY NoAskTyped DEF CredentialsInv, CredentialsTypeOK
<1>2. \A b \in Askers : ask'[b] = IF b = a THEN NoAsk ELSE ask[b]
    BY DEF CredentialsInv, CredentialsTypeOK
<1>3. Sound(NoRowYet, minted)
    BY MintedIsNat DEF CredentialsInv, CredentialsTypeOK, Sound, NoRowYet, NoBatch
<1> QED
    BY <1>1, <1>2, <1>3 DEF CredentialsInv, Sound, Loaded, UsedLinksGone, NoAsk, NoRowYet

(* A commit: the row after it is sound, and a copy in flight stays so.       *)
LEMMA CommitInv ==
    ASSUME CredentialsInv, NEW a \in Askers, Commits(a)
    PROVE  CredentialsInv' /\ (row.mfa = "on" => row'.mfa = "on")
<1> DEFINE q == ask[a]
           n == minted + 1
           new == Assigned(q.kind, q.copy, n)
<1>1. /\ q \in Ask /\ q.kind \in Kinds \ {"recover"} /\ q.copy \in Row
      /\ minted \in Nat /\ minted \in Minted /\ n \in Nat /\ row \in Row
    BY MintedIsNat DEF CredentialsInv, CredentialsTypeOK, Commits, Ask
<1>2. q.kind \in Minting => n \in Minted
    BY <1>1, CredentialsAssumption DEF Commits, Minted
<1>3. /\ minted' \in Minted /\ minted' \in Nat /\ minted <= minted'
      /\ q.kind \in Minting => minted' = n
    BY <1>1, <1>2 DEF Commits
<1>4. new \in Row /\ row' \in Row /\ row' = Committed(q.copy, new)
    BY <1>1, <1>2, AssignedShape, CommittedShape DEF Commits
<1>5. /\ row'.reset = IF new.reset # q.copy.reset THEN new.reset ELSE row.reset
      /\ row'.invite = IF new.invite # q.copy.invite THEN new.invite ELSE row.invite
      /\ row'.mfa = IF new.mfa # q.copy.mfa THEN new.mfa ELSE row.mfa
      /\ row'.secret = IF new.secret # q.copy.secret THEN new.secret ELSE row.secret
      /\ row'.codes = IF new.codes # q.copy.codes THEN new.codes ELSE row.codes
    BY <1>1, <1>4, CommittedShape
<1>15. /\ new.reset = IF q.kind = "forgot" THEN n
                       ELSE IF q.kind = "reset" THEN 0 ELSE q.copy.reset
       /\ new.invite = IF q.kind \in {"invite", "resend"} THEN n
                       ELSE IF q.kind \in {"accept", "loginInvite"} THEN 0 ELSE q.copy.invite
       /\ new.mfa = IF q.kind = "finalize" THEN "on" ELSE q.copy.mfa
       /\ new.secret = IF q.kind = "finalize" THEN n ELSE q.copy.secret
       /\ new.codes = IF q.kind \in {"finalize", "rotate"}
                        THEN [id |-> n, spent |-> {}] ELSE q.copy.codes
    BY <1>1, <1>2, AssignedShape
<1>16. /\ Sound(q.copy, minted) /\ Sound(row, minted)
       /\ q.kind = "reset" => q.copy.reset # 0
       /\ q.kind \in {"accept", "loginInvite"} => q.copy.invite # 0
       /\ q.kind = "rotate" => q.copy.mfa = "on"
       /\ q.copy.mfa = "on" => row.mfa = "on"
       /\ used' = used \cup LinkOf(q.kind, q.copy)
    BY DEF CredentialsInv, Loaded, Commits
<1>17. n = minted + 1 /\ q.copy.codes \in Batch /\ row.codes \in Batch
       /\ q.copy.reset \in Nat /\ q.copy.invite \in Nat /\ q.copy.secret \in Nat
       /\ row.reset \in Nat /\ row.invite \in Nat /\ row.secret \in Nat
       /\ q.copy.codes.id \in Nat /\ row.codes.id \in Nat
       /\ q.copy.mfa \in {"off", "on"} /\ row.mfa \in {"off", "on"}
    BY <1>1, MintedIsNat DEF Row, Batch
<1> HIDE DEF q, n, new
<1>6. row.mfa = "on" => row'.mfa = "on"
    BY <1>5, <1>15, <1>17
<1>7. Sound(row', minted')
  <2>0. /\ q.kind \in {"forgot", "invite", "resend", "finalize"} => n <= minted'
        /\ minted <= minted'
    BY <1>1, <1>3, <1>17 DEF Minting
  <2>1. row'.reset <= minted' /\ row'.invite <= minted'
    <3>1. row'.reset \in {n, 0, row.reset} /\ (row'.reset = n /\ n # row.reset => q.kind = "forgot")
        BY <1>1, <1>5, <1>15, <1>17
    <3>2. row'.invite \in {n, 0, row.invite}
          /\ (row'.invite = n /\ n # row.invite => q.kind \in {"invite", "resend"})
        BY <1>1, <1>5, <1>15, <1>17
    <3> QED
        BY <3>1, <3>2, <2>0, <1>1, <1>3, <1>16, <1>17 DEF Sound
  <2>2. row'.secret <= minted' /\ (row'.mfa = "on" => row'.secret # 0)
    <3>1. CASE q.kind = "finalize"
        BY <3>1, <2>0, <1>1, <1>3, <1>5, <1>15, <1>16, <1>17 DEF Sound
    <3>2. CASE q.kind # "finalize"
        BY <3>2, <2>0, <1>1, <1>3, <1>5, <1>15, <1>16, <1>17 DEF Sound
    <3> QED
        BY <3>1, <3>2
  <2>3. row'.codes.id <= minted' /\ (row'.mfa = "on" => row'.codes.id # 0)
    <3>1. q.kind \in {"finalize", "rotate"} => row'.codes = [id |-> n, spent |-> {}]
        BY <1>1, <1>5, <1>15, <1>16, <1>17 DEF Sound
    <3>2. q.kind \notin {"finalize", "rotate"} => row'.codes = row.codes
        BY <1>1, <1>5, <1>15, <1>16, <1>17
    <3>3. q.kind \in {"finalize", "rotate"} => minted' = n
        BY <1>3 DEF Minting
    <3>4. q.kind # "finalize" => row'.mfa = row.mfa
        BY <1>5, <1>15, <1>17
    <3> QED
        BY <3>1, <3>2, <3>3, <3>4, <1>1, <1>3, <1>16, <1>17 DEF Sound
  <2> QED
    BY <2>1, <2>2, <2>3 DEF Sound
<1>8. \A b \in Askers : ask'[b] = IF b = a THEN NoAsk ELSE ask[b]
    BY DEF CredentialsInv, CredentialsTypeOK, Commits
<1>9. \A b \in Askers : ask[b] \in Ask /\ ask[b].copy \in Row
    BY DEF CredentialsInv, CredentialsTypeOK, Ask
<1>10. \A b \in Askers : Sound(ask'[b].copy, minted')
  <2>1. \A r \in Row : Sound(r, minted) => Sound(r, minted')
    <3> SUFFICES ASSUME NEW r \in Row, Sound(r, minted) PROVE Sound(r, minted')
        OBVIOUS
    <3>1. r.codes \in Batch /\ r.reset \in Nat /\ r.invite \in Nat /\ r.secret \in Nat
        BY MintedIsNat DEF Row
    <3>2. r.codes.id \in Nat
        BY <3>1, MintedIsNat DEF Batch
    <3> QED
        BY <3>1, <3>2, <1>1, <1>3 DEF Sound
  <2>2. Sound(NoRowYet, minted) /\ NoRowYet \in Row
    BY <1>1, NoAskTyped DEF Sound, NoRowYet, NoBatch
  <2>3. NoAsk.copy = NoRowYet
    BY DEF NoAsk
  <2> QED
    BY <2>1, <2>2, <2>3, <1>8, <1>9 DEF CredentialsInv
<1>11. \A b \in Askers : Loaded(b)' /\ (ask'[b].copy.mfa = "on" => row'.mfa = "on")
    BY <1>6, <1>8 DEF CredentialsInv, Loaded, NoAsk, NoRowYet
<1>12. used' \subseteq {"reset", "invite"} \X (1..minted')
  <2>1. LinkOf(q.kind, q.copy) \subseteq {"reset", "invite"} \X (1..minted)
    BY <1>1, <1>16, <1>17 DEF LinkOf, Sound
  <2> QED
    BY <2>1, <1>1, <1>3, <1>16 DEF CredentialsInv
<1>13. UsedLinksGone'
  <2> SUFFICES ASSUME NEW l \in used' PROVE row'[l[1]] # l[2]
    BY DEF UsedLinksGone
  <2>1. CASE l \in used
    <3>1. /\ l[1] \in {"reset", "invite"} /\ l[2] \in 1..minted /\ row[l[1]] # l[2]
        BY <2>1 DEF CredentialsInv, UsedLinksGone
    <3>2. CASE l[1] = "reset"
        BY <3>1, <3>2, <1>1, <1>5, <1>15, <1>16, <1>17
    <3>3. CASE l[1] = "invite"
        BY <3>1, <3>3, <1>1, <1>5, <1>15, <1>16, <1>17
    <3> QED
        BY <3>1, <3>2, <3>3
  <2>2. CASE l \in LinkOf(q.kind, q.copy)
    <3>1. CASE q.kind = "reset"
        BY <2>2, <3>1, <1>1, <1>5, <1>15, <1>16, <1>17 DEF LinkOf
    <3>2. CASE q.kind \in {"accept", "loginInvite"}
        BY <2>2, <3>2, <1>1, <1>5, <1>15, <1>16, <1>17 DEF LinkOf
    <3> QED
        BY <2>2, <3>1, <3>2 DEF LinkOf
  <2> QED
    BY <2>1, <2>2, <1>16
<1>14. CredentialsTypeOK'
  <2>1. ask' \in [Askers -> Ask]
    BY NoAskTyped DEF CredentialsInv, CredentialsTypeOK, Commits
  <2>2. used' \subseteq {"reset", "invite"} \X Minted
    BY <1>12, <1>3, CredentialsAssumption DEF Minted
  <2>3. lapsed' \subseteq Minted
    BY DEF CredentialsInv, CredentialsTypeOK, Commits
  <2> QED
    BY <2>1, <2>2, <2>3, <1>3, <1>4, <1>7 DEF CredentialsTypeOK, Sound
<1> QED
    BY <1>6, <1>7, <1>10, <1>11, <1>12, <1>13, <1>14 DEF CredentialsInv

(* consume_recovery_code touches the batch only.                             *)
LEMMA CommitCodeInv ==
    ASSUME CredentialsInv, NEW a \in Askers, CommitsCode(a)
    PROVE  CredentialsInv' /\ (row.mfa = "on" => row'.mfa = "on")
<1> DEFINE q == ask[a]
           new == [q.copy EXCEPT !.codes.spent = @ \cup q.code]
<1>1. q \in Ask /\ q.copy \in Row /\ row \in Row /\ minted \in Nat /\ q.code \subseteq Codes
    BY MintedIsNat DEF CredentialsInv, CredentialsTypeOK, Ask
<1>2. q.copy.codes \in Batch /\ row.codes \in Batch
    BY <1>1 DEF Row
<1>3. /\ new \in Row /\ new.codes \in Batch /\ new.codes.id = q.copy.codes.id
      /\ new.reset = q.copy.reset /\ new.invite = q.copy.invite
      /\ new.mfa = q.copy.mfa /\ new.secret = q.copy.secret
    BY <1>1, <1>2 DEF Row, Batch
<1>4. row' = Committed(q.copy, new)
    BY DEF CommitsCode
<1>5. /\ row' \in Row /\ row'.reset = row.reset /\ row'.invite = row.invite
      /\ row'.mfa = row.mfa /\ row'.secret = row.secret
      /\ row'.codes = new.codes \/ row'.codes = row.codes
    BY <1>1, <1>3, <1>4, CommittedShape
<1>6. q.copy.mfa = "on" /\ Sound(q.copy, minted) /\ Sound(row, minted)
    BY DEF CredentialsInv, Loaded, CommitsCode
<1>7. UNCHANGED <<minted, lapsed, used>>
    BY DEF CommitsCode
<1>8. Sound(row', minted')
    BY <1>3, <1>5, <1>6, <1>7 DEF Sound
<1>9. \A b \in Askers : ask'[b] = IF b = a THEN NoAsk ELSE ask[b]
    BY DEF CredentialsInv, CredentialsTypeOK, CommitsCode
<1>10. Sound(NoRowYet, minted)
    BY <1>1 DEF Sound, NoRowYet, NoBatch
<1>11. CredentialsTypeOK'
    BY <1>5, <1>7, <1>8, NoAskTyped DEF CredentialsInv, CredentialsTypeOK, CommitsCode, Sound
<1>12. UsedLinksGone'
    BY <1>5, <1>7 DEF CredentialsInv, UsedLinksGone
<1>13. \A b \in Askers : Loaded(b)' /\ Sound(ask'[b].copy, minted') /\ (ask'[b].copy.mfa = "on" => row'.mfa = "on")
    BY <1>5, <1>7, <1>9, <1>10 DEF CredentialsInv, Loaded, Sound, NoAsk, NoRowYet
<1> QED
    BY <1>5, <1>7, <1>8, <1>11, <1>12, <1>13 DEF CredentialsInv

LEMMA CredentialsNextInv ==
    ASSUME CredentialsInv, [CredentialsNext]_cVars
    PROVE  CredentialsInv' /\ (row.mfa = "on" => row'.mfa = "on")
<1>1. CASE UNCHANGED cVars
    BY <1>1 DEF cVars, CredentialsInv, CredentialsTypeOK, Sound, Loaded, UsedLinksGone
<1>2. CASE LinkExpires
  <2>1. CredentialsTypeOK' /\ row' = row
    BY <1>2 DEF LinkExpires, CredentialsInv, CredentialsTypeOK, Row
  <2> QED
    BY <1>2, <2>1 DEF LinkExpires, CredentialsInv, Sound, Loaded, UsedLinksGone
<1>3. ASSUME NEW a \in Askers, NEW kind \in Kinds, Loads(a, kind)
      PROVE  CredentialsInv' /\ row' = row
  <2> DEFINE q == [kind |-> kind, copy |-> row, code |-> {}]
  <2>1. q \in Ask
    BY DEF Ask, CredentialsInv, CredentialsTypeOK
  <2>2. /\ kind = "reset" => row.reset # 0
        /\ kind \in {"accept", "loginInvite"} => row.invite # 0
        /\ kind \in {"rotate", "recover"} => row.mfa = "on"
    BY <1>3 DEF Loads, Accepts
  <2>3. ask' = [ask EXCEPT ![a] = q] /\ UNCHANGED <<row, minted, lapsed, used>>
    BY <1>3 DEF Loads
  <2> HIDE DEF q
  <2>4. q.kind = kind /\ q.copy = row
    BY DEF q
  <2> QED
    BY <2>1, <2>2, <2>3, <2>4, LoadInv
<1>4. ASSUME NEW a \in Askers, NEW k \in Codes, LoadsCode(a, k)
      PROVE  CredentialsInv' /\ row' = row
  <2> DEFINE q == [kind |-> "recover", copy |-> row, code |-> {k}]
  <2>1. q \in Ask /\ row.mfa = "on"
    BY <1>4 DEF Ask, Kinds, CredentialsInv, CredentialsTypeOK, LoadsCode
  <2>2. ask' = [ask EXCEPT ![a] = q] /\ UNCHANGED <<row, minted, lapsed, used>>
    BY <1>4 DEF LoadsCode
  <2> HIDE DEF q
  <2>3. q.kind = "recover" /\ q.copy = row
    BY DEF q
  <2> QED
    BY <2>1, <2>2, <2>3, LoadInv
<1>5. ASSUME NEW a \in Askers, Aborts(a)
      PROVE  CredentialsInv' /\ row' = row
    BY <1>5, EndInv DEF Aborts
<1> QED
    BY <1>1, <1>2, <1>3, <1>4, <1>5, CommitInv, CommitCodeInv DEF CredentialsNext, LinkExpires

-------------------------------------------------------------------------------
THEOREM CredentialsInvariant == CredentialsSpec => []CredentialsInv
BY CredentialsInitInv, CredentialsNextInv, PTL DEF CredentialsSpec

(* Rows, copies and links are well formed, and an enrolled account has a     *)
(* secret and a batch of codes: AccountCredentials!CredentialsTypeOK.        *)
THEOREM CredentialsTypes == CredentialsSpec => []CredentialsTypeOK
<1>1. CredentialsInv => CredentialsTypeOK
    BY DEF CredentialsInv
<1> QED
    BY <1>1, CredentialsInvariant, PTL

(* A used reset or invitation link opens nothing again.                      *)
THEOREM LinksStayGone == CredentialsSpec => []UsedLinksGone
<1>1. CredentialsInv => UsedLinksGone
    BY DEF CredentialsInv
<1> QED
    BY <1>1, CredentialsInvariant, PTL

(* MFA is never turned off by a request that loaded the account before.      *)
THEOREM MfaIsForGood == CredentialsSpec => MfaStaysOn
<1>1. CredentialsInv /\ [CredentialsNext]_cVars => [row.mfa = "on" => row'.mfa = "on"]_cVars
    BY CredentialsNextInv
<1> QED
    BY <1>1, CredentialsInvariant, PTL DEF CredentialsSpec, MfaStaysOn

(* Both: used links stay gone and MFA stays on, whatever copies of the row   *)
(* the requests in flight hold.                                              *)
THEOREM CredentialsAreKept == CredentialsSpec => CredentialsKept
BY LinksStayGone, MfaIsForGood, PTL DEF CredentialsKept
===============================================================================
