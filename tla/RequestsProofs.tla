--------------------------- MODULE RequestsProofs ---------------------------
(***************************************************************************)
(* What requests of several components leave behind, for any number of them *)
(* in flight: one decision of a change request, grants that raced, the texts *)
(* of a catalogue, limits and counters that hold, the access that was set.  *)
(***************************************************************************)
EXTENDS ChangeRequests, PermissionGrants, ConnectionSync, RequestGate, PlanLimits,
        DataAccess, FiniteSetTheorems, TLAPS

(* Two sets that differ in one element at most                               *)
LEMMA OneMoved ==
    ASSUME NEW A, NEW B, NEW x, IsFiniteSet(A), A \ {x} = B \ {x}
    PROVE  /\ IsFiniteSet(B) /\ Cardinality(A) \in Nat /\ Cardinality(B) \in Nat
           /\ x \in A => Cardinality(A) >= 1
           /\ Cardinality(B) = Cardinality(A) + (IF x \in B THEN 1 ELSE 0) - (IF x \in A THEN 1 ELSE 0)
<1> DEFINE R == A \ {x}
<1>1. IsFiniteSet(R) /\ Cardinality(R) = IF x \in A THEN Cardinality(A) - 1 ELSE Cardinality(A)
    BY FS_RemoveElement
<1>2. B = IF x \in B THEN R \cup {x} ELSE R
    OBVIOUS
<1>3. x \notin R
    OBVIOUS
<1> HIDE DEF R
<1>4. IsFiniteSet(R \cup {x}) /\ Cardinality(R \cup {x}) = Cardinality(R) + 1
    BY <1>1, <1>3, FS_AddElement
<1>5. IsFiniteSet(B) /\ Cardinality(B) = IF x \in B THEN Cardinality(R) + 1 ELSE Cardinality(R)
    BY <1>1, <1>2, <1>4
<1>6. Cardinality(A) \in Nat /\ Cardinality(R) \in Nat
    BY <1>1, FS_CardinalityType
<1> QED
    BY <1>1, <1>5, <1>6

(***************************************************************************)
(* Change requests: the row is written whole, by one request at a time.     *)
(***************************************************************************)

(* What a change request says was decided by whom was decided so by one      *)
(* request, whichever were in flight together                                *)
(* (change_request_service.py:139).                                          *)
THEOREM DecidedWhole == ChangesSpec => []DecisionIsWhole
<1>1. ChangesInit => DecisionIsWhole
  BY DEF ChangesInit, DecisionIsWhole
<1>2. DecisionIsWhole /\ [ChangesNext]_chVars => DecisionIsWhole'
  <2> SUFFICES ASSUME DecisionIsWhole, [ChangesNext]_chVars PROVE DecisionIsWhole'
    OBVIOUS
  <2>1. CASE ChangeOpens
    BY <2>1 DEF ChangeOpens, DecisionIsWhole
  <2>2. ASSUME NEW u \in Owners, NEW d \in Decisions, DecisionReads(u, d) PROVE DecisionIsWhole'
    BY <2>2 DEF DecisionReads, DecisionIsWhole
  <2>3. ASSUME NEW u \in Owners, DecisionCommits(u) PROVE DecisionIsWhole'
    BY <2>3 DEF DecisionCommits, DecisionIsWhole
  <2>4. ASSUME NEW u \in Owners, DecisionDies(u) PROVE DecisionIsWhole'
    BY <2>4 DEF DecisionDies, DecisionIsWhole
  <2>5. CASE UNCHANGED chVars
    BY <2>5 DEF chVars, DecisionIsWhole
  <2> QED
    BY <2>1, <2>2, <2>3, <2>4, <2>5 DEF ChangesNext
<1> QED
  BY <1>1, <1>2, PTL DEF ChangesSpec

(* A change request, and who is deciding it, keep their types.               *)
THEOREM ChangesTypes == ChangesSpec => []ChangesTypeOK
<1>1. ChangesInit => ChangesTypeOK
    BY DEF ChangesInit, ChangesTypeOK
<1>2. ChangesTypeOK /\ [ChangesNext]_chVars => ChangesTypeOK'
    BY DEF ChangesTypeOK, ChangesNext, chVars, ChangeOpens, DecisionReads, DecisionCommits, DecisionDies,
           Change, Pending, Decisions
<1> QED
    BY <1>1, <1>2, PTL DEF ChangesSpec

(***************************************************************************)
(* Grants: a request that looked when there was none, and beside which      *)
(* nothing was inserted, still finds none.                                  *)
(***************************************************************************)

GrantRows ==
    /\ granted \in Nat
    /\ standing \subseteq 1..granted /\ races \subseteq 1..granted
    /\ \A g \in Granters : asked[g].row \in 0..granted
    /\ asked \in [Granters -> [op : {"none", "insert", "revoke"}, row : Nat]]
SawNone == \A g \in Granters : asked[g].op = "insert" /\ asked[g].row = granted => standing = {}
OneUnraced == \A r, s \in standing \ races : r = s
GrantsInv == GrantRows /\ SawNone /\ OneUnraced

LEMMA GrantsStart == GrantsInit => GrantsInv
BY DEF GrantsInit, GrantsInv, GrantRows, SawNone, OneUnraced, NoGrant

LEMMA GrantCommitStep ==
    ASSUME GrantsInv, NEW g \in Granters, GrantCommits(g)
    PROVE  GrantsInv'
<1> USE DEF GrantsInv
<1>1. granted \in Nat /\ asked[g].row \in 0..granted /\ granted' = granted + 1 /\ asked[g].op = "insert"
  BY DEF GrantCommits, GrantRows
<1>2. standing' \subseteq 1..granted' /\ races' \subseteq 1..granted'
  BY <1>1 DEF GrantCommits, GrantRows
<1>3. asked' = [asked EXCEPT ![g] = NoGrant]
  BY DEF GrantCommits
<1>4. GrantRows'
  BY <1>1, <1>2, <1>3 DEF GrantRows, NoGrant
<1>5. SawNone'
  <2> SUFFICES ASSUME NEW h \in Granters, asked'[h].op = "insert", asked'[h].row = granted'
               PROVE  FALSE
    BY DEF SawNone
  <2>1. h # g
    BY <1>3 DEF NoGrant, GrantRows
  <2>2. asked'[h] = asked[h] /\ asked[h].row <= granted
    BY <1>1, <1>3, <2>1 DEF GrantRows
  <2> QED
    BY <1>1, <2>2
<1>6. OneUnraced'
  <2>1. CASE granted > asked[g].row
    <3>1. standing' \ races' \subseteq standing \ races
      BY <2>1 DEF GrantCommits
    <3> QED
      BY <3>1 DEF OneUnraced
  <2>2. CASE ~(granted > asked[g].row)
    <3>1. asked[g].row = granted
      BY <1>1, <2>2
    <3>2. standing' = {granted + 1}
      BY <1>1, <3>1 DEF SawNone, GrantCommits
    <3> QED
      BY <3>2 DEF OneUnraced
  <2> QED
    BY <2>1, <2>2
<1> QED
  BY <1>4, <1>5, <1>6

LEMMA GrantsStep == GrantsInv /\ [GrantsNext]_gVars => GrantsInv'
<1> SUFFICES ASSUME GrantsInv, [GrantsNext]_gVars PROVE GrantsInv'
  OBVIOUS
<1>1. ASSUME NEW g \in Granters, GrantLooks(g) PROVE GrantsInv'
  BY <1>1 DEF GrantLooks, GrantsInv, GrantRows, SawNone, OneUnraced, NoGrant
<1>2. ASSUME NEW g \in Granters, GrantCommits(g) PROVE GrantsInv'
  BY <1>2, GrantCommitStep
<1>3. ASSUME NEW g \in Granters, RevokeLooks(g) PROVE GrantsInv'
  <2>1. PICK r \in standing : asked' = [asked EXCEPT ![g] = [op |-> "revoke", row |-> r]]
    BY <1>3 DEF RevokeLooks
  <2>2. r \in 0..granted /\ r \in Nat
    BY DEF GrantsInv, GrantRows
  <2> QED
    BY <1>3, <2>1, <2>2 DEF RevokeLooks, GrantsInv, GrantRows, SawNone, OneUnraced
<1>4. ASSUME NEW g \in Granters, RevokeCommits(g) PROVE GrantsInv'
  <2>1. asked' = [asked EXCEPT ![g] = NoGrant] /\ standing' \subseteq standing /\ UNCHANGED <<granted, races>>
    BY <1>4 DEF RevokeCommits
  <2>2. GrantRows'
    BY <2>1 DEF GrantsInv, GrantRows, NoGrant
  <2>3. SawNone'
    BY <2>1 DEF GrantsInv, GrantRows, SawNone, NoGrant
  <2>4. OneUnraced'
    BY <2>1 DEF GrantsInv, OneUnraced
  <2> QED
    BY <2>2, <2>3, <2>4 DEF GrantsInv
<1>5. ASSUME NEW g \in Granters, GrantAborts(g) PROVE GrantsInv'
  BY <1>5 DEF GrantAborts, GrantsInv, GrantRows, SawNone, OneUnraced, NoGrant
<1>6. CASE UNCHANGED gVars
  BY <1>6 DEF gVars, GrantsInv, GrantRows, SawNone, OneUnraced
<1> QED
  BY <1>1, <1>2, <1>3, <1>4, <1>5, <1>6 DEF GrantsNext

LEMMA AtMostOne == GrantsInv => TwiceOnlyByRace
<1> SUFFICES ASSUME GrantsInv PROVE Cardinality(standing \ races) <= 1
  BY DEF TwiceOnlyByRace
<1>1. CASE standing \ races = {}
  BY <1>1, FS_EmptySet
<1>2. CASE standing \ races # {}
  <2>1. PICK r \in standing \ races : TRUE
    BY <1>2
  <2>2. standing \ races = {r}
    BY <2>1 DEF GrantsInv, OneUnraced
  <2> QED
    BY <2>2, FS_Singleton
<1> QED
  BY <1>1, <1>2

(* Of the live grants of one permission to one user, at most one was         *)
(* inserted by a request beside which no other was                           *)
(* (permission_grant_service.py:46).                                         *)
THEOREM GrantedOnceUnlessRaced == GrantsSpec => []TwiceOnlyByRace
<1> QED
  BY GrantsStart, GrantsStep, AtMostOne, PTL DEF GrantsSpec


(* The grants there were stay within the bound put on them.                  *)
THEOREM GrantsTypes == GrantsSpec => []GrantsTypeOK
<1> DEFINE Few == granted <= MaxGrants
<1>1. GrantsInit => Few
    BY GrantsAssumption DEF GrantsInit
<1>2. ASSUME GrantsInv, Few, [GrantsNext]_gVars PROVE Few'
  <2>1. granted \in Nat
    BY <1>2 DEF GrantsInv, GrantRows
  <2> QED
    BY <1>2, <2>1, GrantsAssumption
       DEF GrantsNext, gVars, GrantLooks, GrantCommits, RevokeLooks, RevokeCommits, GrantAborts
<1>3. GrantsInv /\ Few => GrantsTypeOK
  <2> SUFFICES ASSUME GrantsInv, Few PROVE GrantsTypeOK
    OBVIOUS
  <2>1. /\ granted \in 0..MaxGrants /\ standing \subseteq 1..granted /\ races \subseteq 1..granted
    BY GrantsAssumption DEF GrantsInv, GrantRows
  <2>2. \A g \in Granters : asked[g] \in [op : {"none", "insert", "revoke"}, row : 0..granted]
    BY DEF GrantsInv, GrantRows
  <2>3. asked \in [Granters -> [op : {"none", "insert", "revoke"}, row : 0..granted]]
    BY <2>2 DEF GrantsInv, GrantRows
  <2> QED
    BY <2>1, <2>3 DEF GrantsTypeOK
<1> HIDE DEF Few
<1> QED
    BY <1>1, <1>2, <1>3, GrantsStart, GrantsStep, PTL DEF GrantsSpec

(***************************************************************************)
(* The catalogue of a connection: a copy that is current is the catalogue.  *)
(***************************************************************************)

CurrentCopy ==
    \A q \in Curators :
        curating[q].pc \in {"sync", "merge", "edit", "test"} /\ curating[q].current
        => curating[q].saw = catalogue
CataloguesInv == CataloguesTypeOK /\ CurrentCopy

LEMMA CataloguesStart == CataloguesInit => CataloguesInv
<1> SUFFICES ASSUME CataloguesInit PROVE CataloguesInv
  OBVIOUS
<1>1. NoCatalogue \in Lists /\ Catalogue([t \in Assets |-> Blank]) \in Lists
  BY DEF NoCatalogue, Catalogue, Lists, Texts
<1>2. catalogue \in Lists /\ conn.row # "gone"
  BY <1>1 DEF CataloguesInit
<1>3. NotAsked \in [pc : {"new", "sync", "merge", "edit", "test", "done"},
                    saw : Lists, found : SUBSET Assets, current : BOOLEAN]
  BY <1>1 DEF NotAsked
<1>4. CataloguesTypeOK
  BY <1>2, <1>3 DEF CataloguesInit, CataloguesTypeOK
<1>5. CurrentCopy
  BY DEF CataloguesInit, CurrentCopy, NotAsked
<1> QED
  BY <1>4, <1>5 DEF CataloguesInv

(* Whoever ends, with whatever list, leaves the other copies current or      *)
(* marks them                                                                *)
LEMMA ClosesKeeps ==
    ASSUME CataloguesInv, NEW q \in Curators, NEW list \in Lists, Closes(q, list),
           conn' \in [row : {"live", "gone"}, status : {"inactive", "active", "error"}, error : BOOLEAN],
           conn'.row = "gone" => list = NoCatalogue
    PROVE  CataloguesInv'
<1> USE DEF CataloguesInv
<1>1. \A r \in Curators : curating'[r] =
          IF r = q THEN [curating[q] EXCEPT !.pc = "done"]
          ELSE [curating[r] EXCEPT !.current =
                   curating[r].current /\ (list = catalogue \/ curating[r].pc = "new")]
  BY DEF Closes
<1>2. CataloguesTypeOK'
  <2>1. catalogue' \in Lists /\ (conn'.row = "gone" => catalogue' = NoCatalogue)
    BY DEF Closes, CataloguesTypeOK
  <2> DEFINE Row == [pc : {"new", "sync", "merge", "edit", "test", "done"},
                     saw : Lists, found : SUBSET Assets, current : BOOLEAN]
  <2>2. curating' \in [Curators -> Row]
    <3>1. ASSUME NEW r \in Curators PROVE curating'[r] \in Row
      <4>1. curating[r] \in Row /\ curating[q] \in Row
        BY DEF CataloguesTypeOK
      <4>2. CASE r = q
        <5>1. curating'[r] = [curating[q] EXCEPT !.pc = "done"]
          BY <1>1, <4>2
        <5>2. [curating[q] EXCEPT !.pc = "done"] \in Row
          BY <4>1
        <5> QED
          BY <5>1, <5>2
      <4>3. CASE r # q
        <5> DEFINE same == curating[r].current /\ (list = catalogue \/ curating[r].pc = "new")
        <5>1. curating'[r] = [curating[r] EXCEPT !.current = same]
          BY <1>1, <4>3
        <5> HIDE DEF same
        <5>2. \A b \in BOOLEAN : [curating[r] EXCEPT !.current = b] \in Row
          BY <4>1
        <5>3. same \in BOOLEAN
          BY DEF same
        <5> QED
          BY <5>1, <5>2, <5>3
      <4> QED
        BY <4>2, <4>3
    <3> QED
      BY <3>1 DEF Closes
  <2> QED
    BY <2>1, <2>2 DEF CataloguesTypeOK
<1>3. CurrentCopy'
  <2> SUFFICES ASSUME NEW r \in Curators,
                      curating'[r].pc \in {"sync", "merge", "edit", "test"}, curating'[r].current
               PROVE  curating'[r].saw = catalogue'
    BY DEF CurrentCopy
  <2>1. curating[r] \in [pc : {"new", "sync", "merge", "edit", "test", "done"},
                         saw : Lists, found : SUBSET Assets, current : BOOLEAN]
    BY DEF CataloguesTypeOK
  <2>2. r # q
    BY <1>1, <2>1
  <2>3. /\ curating'[r].pc = curating[r].pc /\ curating'[r].saw = curating[r].saw
        /\ curating[r].current /\ (list = catalogue \/ curating[r].pc = "new")
    BY <1>1, <2>1, <2>2
  <2> QED
    BY <2>3 DEF CurrentCopy, Closes
<1> QED
  BY <1>2, <1>3

LEMMA MarkedTyped ==
    ASSUME CataloguesTypeOK, NEW status \in {"active", "error"}
    PROVE  /\ Marked(status) \in [row : {"live", "gone"}, status : {"inactive", "active", "error"}, error : BOOLEAN]
           /\ Marked(status).row = conn.row
BY DEF Marked, CataloguesTypeOK

LEMMA MergedListed ==
    ASSUME CataloguesTypeOK, NEW q \in Curators
    PROVE  Catalogue(Merged(q)) \in Lists
BY CatalogueAssumption DEF Catalogue, Merged, Lists, Texts, CataloguesTypeOK

LEMMA CataloguesStep == CataloguesInv /\ [CataloguesNext]_kVars => CataloguesInv'
<1> SUFFICES ASSUME CataloguesInv, [CataloguesNext]_kVars PROVE CataloguesInv'
  OBVIOUS
<1> USE DEF CataloguesInv
<1>1. ASSUME NEW q \in Curators, NEW at \in {"sync", "edit", "test"}, Starts(q, at)
      PROVE  CataloguesInv'
  BY <1>1, CatalogueAssumption
     DEF Starts, CataloguesTypeOK, CurrentCopy, NotAsked, NoCatalogue, Lists, Texts
<1>2. ASSUME NEW q \in Curators, SyncAnswers(q) PROVE CataloguesInv'
  <2>1. PICK found \in SUBSET Assets :
          LET held == curating[q].saw.there /\ catalogue.there
          IN  curating' = [curating EXCEPT
                  ![q].pc = "merge", ![q].found = found \cap Selected,
                  ![q].saw = IF held THEN @ ELSE catalogue,
                  ![q].current = @ \/ ~held]
    BY <1>2 DEF SyncAnswers
  <2>2. CataloguesTypeOK'
    <3>1. conn' = conn /\ catalogue' = catalogue
      BY <1>2 DEF SyncAnswers
    <3>2. curating[q].saw \in Lists /\ catalogue \in Lists /\ found \cap Selected \in SUBSET Assets
      BY DEF CataloguesTypeOK
    <3>3. (IF curating[q].saw.there /\ catalogue.there THEN curating[q].saw ELSE catalogue) \in Lists
      BY <3>2
    <3>4. curating' \in [Curators ->
            [pc : {"new", "sync", "merge", "edit", "test", "done"},
             saw : Lists, found : SUBSET Assets, current : BOOLEAN]]
      <4> DEFINE held == curating[q].saw.there /\ catalogue.there
                 saw == IF held THEN curating[q].saw ELSE catalogue
                 Asked == [pc : {"new", "sync", "merge", "edit", "test", "done"},
                           saw : Lists, found : SUBSET Assets, current : BOOLEAN]
      <4>1. curating' = [curating EXCEPT ![q] =
               [curating[q] EXCEPT !.pc = "merge", !.found = found \cap Selected,
                                   !.saw = saw, !.current = curating[q].current \/ ~held]]
        BY <2>1 DEF CataloguesTypeOK
      <4>2. curating \in [Curators -> Asked] /\ saw \in Lists
            /\ (curating[q].current \/ ~held) \in BOOLEAN
        BY <3>3 DEF CataloguesTypeOK
      <4> HIDE DEF saw, held
      <4>3. [curating[q] EXCEPT !.pc = "merge", !.found = found \cap Selected,
                                !.saw = saw, !.current = curating[q].current \/ ~held] \in Asked
        BY <3>2, <4>2
      <4> QED
        BY <4>1, <4>2, <4>3
    <3> QED
      BY <3>1, <3>4 DEF CataloguesTypeOK
  <2>3. CurrentCopy'
    BY <1>2, <2>1 DEF SyncAnswers, CataloguesTypeOK, CurrentCopy, Lists
  <2> QED
    BY <2>2, <2>3
<1>3. ASSUME NEW q \in Curators, SyncCommits(q) PROVE CataloguesInv'
  <2>1. catalogue \in Lists
    BY DEF CataloguesTypeOK
  <2>2. CASE InsertFails(q)
    BY <1>3, <2>1, <2>2, ClosesKeeps DEF SyncCommits, CataloguesTypeOK
  <2>3. CASE ~InsertFails(q)
    <3> DEFINE list == IF conn.row = "gone" THEN catalogue ELSE Catalogue(Merged(q))
    <3>1. Closes(q, list) /\ conn' = Marked("active")
      BY <1>3, <2>3 DEF SyncCommits
    <3>2. list \in Lists
      BY <2>1, MergedListed
    <3>3. conn'.row = conn.row /\ conn' \in
             [row : {"live", "gone"}, status : {"inactive", "active", "error"}, error : BOOLEAN]
      BY <3>1, MarkedTyped
    <3>4. conn'.row = "gone" => list = NoCatalogue
      BY <3>3 DEF CataloguesTypeOK
    <3> HIDE DEF list
    <3> QED
      BY <2>1, <3>1, <3>2, <3>3, <3>4, ClosesKeeps
  <2> QED
    BY <2>2, <2>3
<1>4. ASSUME NEW q \in Curators, NEW status \in {"active", "error"},
             conn' = Marked(status), Closes(q, catalogue)
      PROVE  CataloguesInv'
  <2>1. conn'.row = conn.row /\ conn' \in
           [row : {"live", "gone"}, status : {"inactive", "active", "error"}, error : BOOLEAN]
    BY <1>4, MarkedTyped
  <2>2. /\ catalogue \in Lists
        /\ conn'.row = "gone" => catalogue = NoCatalogue
    BY <2>1 DEF CataloguesTypeOK
  <2> QED
    BY <1>4, <2>1, <2>2, ClosesKeeps
<1>5. ASSUME NEW q \in Curators, EditSaves(q) PROVE CataloguesInv'
  <2>1. /\ catalogue \in Lists
        /\ curating[q].saw \in Lists /\ conn' = conn
    BY <1>5 DEF CataloguesTypeOK, EditSaves
  <2>2. CASE ~catalogue.there
    BY <1>5, <2>1, <2>2, ClosesKeeps DEF EditSaves, CataloguesTypeOK
  <2>3. CASE catalogue.there
    <3>1. PICK t \in Assets : Closes(q, Catalogue([curating[q].saw.text EXCEPT ![t] = q]))
      BY <1>5, <2>3 DEF EditSaves
    <3>2. Catalogue([curating[q].saw.text EXCEPT ![t] = q]) \in Lists
      BY <2>1 DEF Catalogue, Lists, Texts
    <3>3. conn.row # "gone"
      BY <2>3 DEF CataloguesTypeOK, NoCatalogue
    <3> QED
      BY <2>1, <3>1, <3>2, <3>3, ClosesKeeps DEF CataloguesTypeOK
  <2> QED
    BY <2>2, <2>3
<1>6. ASSUME NEW q \in Curators, Deletes(q) PROVE CataloguesInv'
  <2>1. NoCatalogue \in Lists
    BY DEF NoCatalogue, Lists, Texts
  <2>2. conn' \in [row : {"live", "gone"}, status : {"inactive", "active", "error"}, error : BOOLEAN]
    BY <1>6 DEF Deletes, CataloguesTypeOK
  <2> QED
    BY <1>6, <2>1, <2>2, ClosesKeeps DEF Deletes, CataloguesTypeOK
<1>7. CASE UNCHANGED kVars
  BY <1>7 DEF kVars, CataloguesTypeOK, CurrentCopy
<1> QED
  BY <1>1, <1>2, <1>3, <1>4, <1>5, <1>6, <1>7
     DEF CataloguesNext, SyncAsks, EditOpens, TestReads, SyncFails, TestAnswers

(* Types, and no catalogue outlives its connection                           *)
(* (connection_service.py:394).                                              *)
THEOREM CataloguesTypes == CataloguesSpec => []CataloguesTypeOK
BY CataloguesStart, CataloguesStep, PTL DEF CataloguesSpec, CataloguesInv

(* A request whose copy of the catalogue is current takes away no text it    *)
(* should spare (connection_service.py:488, :799): however many              *)
(* synchronisations, saves, tests and deletions are in flight.               *)
THEOREM TextsAreKept == CataloguesSpec => TextsKept
<1> DEFINE Step == \A q \in Curators : \A t \in Assets :
        (/\ curating[q].pc \in {"sync", "merge", "edit", "test"} /\ curating'[q].pc = "done"
         /\ curating[q].current
         /\ catalogue.text[t] \in Curators
         /\ Spares(q, t))
        => catalogue'.text[t] = catalogue.text[t]
<1>1. CataloguesInv /\ [CataloguesNext]_kVars => [Step]_kVars
  <2> SUFFICES ASSUME CataloguesInv, CataloguesNext,
                      NEW q \in Curators, NEW t \in Assets,
                      curating[q].pc \in {"sync", "merge", "edit", "test"}, curating'[q].pc = "done",
                      curating[q].current, catalogue.text[t] \in Curators, Spares(q, t)
               PROVE  catalogue'.text[t] = catalogue.text[t]
    BY DEF kVars
  <2> USE DEF CataloguesInv
  <2>1. curating[q].saw = catalogue
    BY DEF CurrentCopy
  <2>2. conn.row = "live"
    BY CatalogueAssumption DEF CataloguesTypeOK, NoCatalogue
  <2>3. ASSUME NEW r \in Curators, NEW list, Closes(r, list), r # q PROVE FALSE
    BY <2>3 DEF Closes, CataloguesTypeOK
  <2>4. ASSUME NEW r \in Curators, NEW at \in {"sync", "edit", "test"}, Starts(r, at) PROVE FALSE
    BY <2>4 DEF Starts, NotAsked, CataloguesTypeOK
  <2>5. ASSUME NEW r \in Curators, SyncAnswers(r) PROVE FALSE
    BY <2>5 DEF SyncAnswers, CataloguesTypeOK
  <2>6. ASSUME NEW r \in Curators, Closes(r, catalogue) PROVE catalogue'.text[t] = catalogue.text[t]
    BY <2>6 DEF Closes
  <2>7. ASSUME NEW r \in Curators, SyncCommits(r) PROVE catalogue'.text[t] = catalogue.text[t]
    <3>1. CASE InsertFails(r)
      BY <2>6, <2>7, <3>1 DEF SyncCommits
    <3>2. CASE ~InsertFails(r)
      <4>1. Closes(r, Catalogue(Merged(r)))
        BY <2>2, <2>7, <3>2 DEF SyncCommits
      <4>2. r = q
        BY <2>3, <4>1
      <4>3. curating[q].pc = "merge"
        BY <2>7, <4>2 DEF SyncCommits
      <4> QED
        BY <2>1, <4>1, <4>2, <4>3 DEF Closes, Catalogue, Merged, Spares
    <3> QED
      BY <3>1, <3>2
  <2>8. ASSUME NEW r \in Curators, EditSaves(r) PROVE catalogue'.text[t] = catalogue.text[t]
    <3>1. CASE ~catalogue.there
      BY <2>6, <2>8, <3>1 DEF EditSaves
    <3>2. CASE catalogue.there
      <4>1. PICK u \in Assets : Closes(r, Catalogue([curating[r].saw.text EXCEPT ![u] = r]))
        BY <2>8, <3>2 DEF EditSaves
      <4>2. r = q
        BY <2>3, <4>1
      <4>3. catalogue'.text[t] # q
        BY <2>8, <4>2 DEF EditSaves, Spares
      <4> QED
        BY <2>1, <4>1, <4>2, <4>3 DEF Closes, Catalogue, CataloguesTypeOK, Lists
    <3> QED
      BY <3>1, <3>2
  <2>9. ASSUME NEW r \in Curators, Deletes(r) PROVE FALSE
    BY <2>3, <2>9 DEF Deletes, NotAsked
  <2> QED
    BY <2>4, <2>5, <2>6, <2>7, <2>8, <2>9
       DEF CataloguesNext, SyncAsks, EditOpens, TestReads, SyncFails, TestAnswers
<1>2. QED
  BY <1>1, CataloguesStart, CataloguesStep, PTL DEF CataloguesSpec, TextsKept

(***************************************************************************)
(* The gate. A window has let past no more than it counted; a request with  *)
(* a stored answer has it still and has not reached the endpoint.           *)
(***************************************************************************)

Steps == {"none", "run", "store", "look", "minute", "hour", "expire_minute", "expire_hour"}
InFlight == [at : Steps, n : Nat, keyed : BOOLEAN, outer : BOOLEAN, inner : BOOLEAN, answered : BOOLEAN]
Replayed(q, known) == q.answered => known /\ q.at \notin {"run", "store"}
GateInv ==
    /\ hits \in [Windows -> Nat] /\ admitted \in [Windows -> Nat]
    /\ req \in [Clients -> InFlight] /\ answer \in BOOLEAN /\ repeated = FALSE
    /\ \A c \in Clients : Replayed(req[c], answer)
    /\ \A w \in Windows : admitted[w] <= hits[w] /\ admitted[w] <= Limit[w]

LEMMA NoReqInFlight == NoReq \in InFlight /\ ~NoReq.answered
BY DEF NoReq, InFlight, Steps

LEMMA GateInitInv == GateInit => GateInv
<1> SUFFICES ASSUME GateInit PROVE GateInv
    OBVIOUS
<1>1. /\ hits \in [Windows -> Nat] /\ admitted \in [Windows -> Nat]
      /\ \A w \in Windows : admitted[w] <= hits[w] /\ admitted[w] <= Limit[w]
    BY LimitAssumption DEF GateInit, Windows
<1>2. /\ req \in [Clients -> InFlight] /\ answer \in BOOLEAN /\ repeated = FALSE
      /\ \A c \in Clients : ~req[c].answered
    BY NoReqInFlight DEF GateInit
<1> QED
    BY <1>1, <1>2 DEF GateInv, Replayed

(* A step of one request that leaves the counters alone.                     *)
LEMMA GateStep ==
    ASSUME GateInv, NEW c \in Clients, NEW q \in InFlight, req' = [req EXCEPT ![c] = q],
           answer' \in BOOLEAN, answer => answer', Replayed(q, answer),
           UNCHANGED <<hits, admitted, repeated>>
    PROVE  GateInv'
BY DEF GateInv, Replayed

LEMMA GateNextInv == ASSUME GateInv, [GateNext]_qVars PROVE GateInv'
<1>1. CASE UNCHANGED qVars
    BY <1>1 DEF qVars, GateInv
<1>2. ASSUME NEW c \in Clients, Arrives(c) PROVE GateInv'
  <2> DEFINE q == [NoReq EXCEPT !.at = "minute", !.outer = TRUE, !.answered = answer]
  <2>1. req' = [req EXCEPT ![c] = q] /\ UNCHANGED <<hits, answer, admitted, repeated>>
        /\ answer \in BOOLEAN
    BY <1>2 DEF Arrives, GateInv
  <2>2. q \in InFlight /\ Replayed(q, answer)
    BY <2>1 DEF NoReq, InFlight, Steps, Replayed
  <2> HIDE DEF q
  <2> QED
    BY <2>1, <2>2, GateStep
<1>3. ASSUME NEW c \in Clients, Looks(c) \/ LookFails(c) \/ LimitsFail(c) \/ Refuses(c) \/ Raises(c)
                                \/ Stores(c) \/ ReqDies(c) \/ Succeeds(c)
      PROVE  GateInv'
  <2>1. /\ req[c] \in InFlight /\ Replayed(req[c], answer) /\ answer \in BOOLEAN
        /\ NoReq \in InFlight /\ Replayed(NoReq, answer)
    BY NoReqInFlight DEF GateInv, Replayed
  <2>2. CASE Looks(c)
    <3> DEFINE q == [req[c] EXCEPT !.at = "run", !.keyed = TRUE, !.inner = TRUE]
    <3>1. CASE answer
        BY <2>1, <2>2, <3>1, GateStep DEF Looks, Ends
    <3>2. CASE ~answer
      <4>1. q \in InFlight /\ Replayed(q, answer)
        BY <2>1, <3>2 DEF InFlight, Steps, Replayed
      <4>2. req' = [req EXCEPT ![c] = q] /\ UNCHANGED <<hits, answer, admitted, repeated>>
        BY <2>2, <3>2 DEF Looks
      <4> HIDE DEF q
      <4> QED
        BY <2>1, <4>1, <4>2, GateStep
    <3> QED
        BY <3>1, <3>2
  <2>3. CASE LookFails(c)
    <3>1. PICK again \in BOOLEAN : req' = [req EXCEPT ![c] =
             [req[c] EXCEPT !.at = "run", !.keyed = FALSE, !.inner = again, !.answered = FALSE]]
        BY <2>3 DEF LookFails
    <3> DEFINE q == [req[c] EXCEPT !.at = "run", !.keyed = FALSE, !.inner = again, !.answered = FALSE]
    <3>2. q \in InFlight /\ Replayed(q, answer)
        BY <2>1 DEF InFlight, Steps, Replayed
    <3>3. req' = [req EXCEPT ![c] = q] /\ UNCHANGED <<hits, answer, admitted, repeated>>
        BY <2>3, <3>1 DEF LookFails
    <3> HIDE DEF q
    <3> QED
        BY <2>1, <3>2, <3>3, GateStep
  <2>4. CASE LimitsFail(c)
    <3>1. PICK again \in BOOLEAN : req' = [req EXCEPT ![c] =
             [req[c] EXCEPT !.at = "look", !.outer = again /\ req[c].at = "minute"]]
        BY <2>4 DEF LimitsFail
    <3> DEFINE q == [req[c] EXCEPT !.at = "look", !.outer = again /\ req[c].at = "minute"]
    <3>2. q \in InFlight /\ Replayed(q, answer)
        BY <2>1 DEF InFlight, Steps, Replayed
    <3>3. req' = [req EXCEPT ![c] = q] /\ UNCHANGED <<hits, answer, admitted, repeated>>
        BY <2>4, <3>1 DEF LimitsFail
    <3> HIDE DEF q
    <3> QED
        BY <2>1, <3>2, <3>3, GateStep
  <2>5. CASE Refuses(c) \/ Stores(c) \/ ReqDies(c)
    <3>1. answer' \in BOOLEAN /\ (answer => answer') /\ req' = [req EXCEPT ![c] = NoReq]
          /\ UNCHANGED <<hits, admitted, repeated>>
        BY <2>1, <2>5 DEF Refuses, Stores, ReqDies, Ends
    <3> QED
        BY <2>1, <3>1, GateStep
  <2>6. CASE Raises(c)
    <3>1. UNCHANGED <<hits, answer, admitted, repeated>> /\ req[c].at = "run"
        BY <2>6 DEF Raises
    <3> DEFINE q == [req[c] EXCEPT !.inner = FALSE, !.keyed = FALSE]
               p == [req[c] EXCEPT !.outer = FALSE, !.at = "look"]
    <3>2. req' = [req EXCEPT ![c] = q] \/ req' = [req EXCEPT ![c] = p] \/ req' = [req EXCEPT ![c] = NoReq]
        BY <2>6 DEF Raises
    <3>3. q \in InFlight /\ Replayed(q, answer)
        BY <2>1, <3>1 DEF InFlight, Steps, Replayed
    <3>4. p \in InFlight /\ Replayed(p, answer)
        BY <2>1, <3>1 DEF InFlight, Steps, Replayed
    <3> HIDE DEF q, p
    <3> QED
        BY <2>1, <3>1, <3>2, <3>3, <3>4, GateStep
  <2>7. CASE Succeeds(c)
    <3>1. req[c].at = "run" /\ ~req[c].answered /\ UNCHANGED <<hits, answer, admitted, repeated>>
        BY <2>1, <2>7 DEF Succeeds, Replayed, GateInv
    <3> DEFINE q == [req[c] EXCEPT !.at = "store"]
    <3>2. q \in InFlight /\ Replayed(q, answer)
        BY <2>1, <3>1 DEF InFlight, Steps, Replayed
    <3>3. req' = [req EXCEPT ![c] = q] \/ req' = [req EXCEPT ![c] = NoReq]
        BY <2>7 DEF Succeeds, Goes, Ends
    <3> HIDE DEF q
    <3> QED
        BY <2>1, <3>1, <3>2, <3>3, GateStep
  <2> QED
    BY <1>3, <2>2, <2>3, <2>4, <2>5, <2>6, <2>7
<1>4. ASSUME NEW c \in Clients, NEW w \in Windows, SetsTime(c, w) PROVE GateInv'
  <2> DEFINE q == [req[c] EXCEPT !.at = Past(w)]
  <2>1. q \in InFlight /\ Replayed(q, answer) /\ answer \in BOOLEAN
    BY DEF GateInv, InFlight, Steps, Replayed, Past
  <2>2. req' = [req EXCEPT ![c] = q] /\ UNCHANGED <<hits, answer, admitted, repeated>>
    BY <1>4 DEF SetsTime, Goes
  <2> HIDE DEF q
  <2> QED
    BY <2>1, <2>2, GateStep
<1>5. ASSUME NEW c \in Clients, NEW w \in Windows, Counts(c, w) PROVE GateInv'
  <2> DEFINE n == hits[w] + 1
             at == IF n = 1 THEN Expire(w) ELSE Past(w)
             q == [req[c] EXCEPT !.n = n, !.at = at]
  <2>1. at \in Steps \ {"run", "store"} /\ n \in Nat
    BY DEF GateInv, Steps, Past, Expire, Windows
  <2>2. req' = [req EXCEPT ![c] = q] \/ req' = [req EXCEPT ![c] = NoReq]
    BY <1>5 DEF Counts
  <2> HIDE DEF at
  <2>3. q \in InFlight /\ Replayed(q, answer)
    BY <2>1 DEF GateInv, InFlight, Replayed
  <2>4. UNCHANGED <<answer, repeated>>
    BY <1>5 DEF Counts
  <2>5. /\ hits' = [hits EXCEPT ![w] = n]
        /\ admitted' = [admitted EXCEPT ![w] = IF n > Limit[w] THEN @ ELSE @ + 1]
    BY <1>5 DEF Counts, Over
  <2> HIDE DEF q
  <2>6. req' \in [Clients -> InFlight] /\ \A d \in Clients : Replayed(req'[d], answer)
    BY <2>2, <2>3, NoReqInFlight DEF GateInv, Replayed
  <2>7. /\ hits' \in [Windows -> Nat] /\ admitted' \in [Windows -> Nat]
        /\ \A v \in Windows : admitted'[v] <= hits'[v] /\ admitted'[v] <= Limit[v]
    BY <2>5, LimitAssumption DEF GateInv, Windows
  <2> QED
    BY <2>4, <2>6, <2>7 DEF GateInv
<1>6. ASSUME NEW w \in Windows, WindowEnds(w) PROVE GateInv'
    BY <1>6, LimitAssumption DEF WindowEnds, GateInv, Windows
<1>7. CASE AnswerExpires
  <2>1. req' = [c \in Clients |-> [req[c] EXCEPT !.answered = FALSE]] /\ answer' = FALSE
        /\ UNCHANGED <<hits, admitted, repeated>>
    BY <1>7 DEF AnswerExpires
  <2>2. \A c \in Clients : [req[c] EXCEPT !.answered = FALSE] \in InFlight
                           /\ [req[c] EXCEPT !.answered = FALSE].answered = FALSE
    BY DEF GateInv, InFlight
  <2> QED
    BY <2>1, <2>2 DEF GateInv, Replayed
<1> QED
    BY <1>1, <1>2, <1>3, <1>4, <1>5, <1>6, <1>7 DEF GateNext

(* However requests and failures of Redis interleave, no window lets past    *)
(* more than its limit, and no request with a stored answer runs again.      *)
THEOREM GateAlwaysKeeps == GateSpec => []GateKeeps
<1>1. GateInv => GateKeeps
    BY DEF GateInv, GateKeeps, AdmittedWithinLimit, AnswerReplayed
<1> QED
    BY <1>1, GateInitInv, GateNextInv, PTL DEF GateSpec

(* The requests that a window has still to count                             *)
Uncounted(w) == IF w = "minute" THEN {"minute"} ELSE {"minute", "expire_minute", "hour"}
ToCount(w) == {c \in Clients : req[c].at \in Uncounted(w)}

GateCounted ==
    /\ arrivals \in 0..MaxArrivals /\ timed \subseteq Windows
    /\ \A c \in Clients : req[c].n <= MaxArrivals
    /\ \A w \in Windows : hits[w] + Cardinality(ToCount(w)) <= arrivals

LEMMA ToCountFinite == \A w : IsFiniteSet(ToCount(w)) /\ Cardinality(ToCount(w)) \in Nat
<1> SUFFICES ASSUME NEW w PROVE IsFiniteSet(ToCount(w)) /\ Cardinality(ToCount(w)) \in Nat
    OBVIOUS
<1>1. ToCount(w) \in SUBSET Clients
    BY DEF ToCount
<1> QED
    BY <1>1, LimitAssumption, FS_Subset, FS_CardinalityType

(* One request moves: what a window has to count changes by that one         *)
LEMMA ToCountMoves ==
    ASSUME NEW c \in Clients, NEW q, DOMAIN req = Clients, req' = [req EXCEPT ![c] = q], NEW w \in Windows
    PROVE  /\ Cardinality(ToCount(w)) \in Nat /\ Cardinality(ToCount(w)') \in Nat
           /\ Cardinality(ToCount(w)') = Cardinality(ToCount(w))
                + (IF q.at \in Uncounted(w) THEN 1 ELSE 0) - (IF req[c].at \in Uncounted(w) THEN 1 ELSE 0)
<1> DEFINE A == ToCount(w)  B == ToCount(w)'
<1>1. A \ {c} = B \ {c} /\ (c \in A <=> req[c].at \in Uncounted(w)) /\ (c \in B <=> q.at \in Uncounted(w))
    BY DEF ToCount
<1>2. IsFiniteSet(A)
    BY ToCountFinite
<1> HIDE DEF A, B
<1>3. /\ Cardinality(A) \in Nat /\ Cardinality(B) \in Nat
      /\ Cardinality(B) = Cardinality(A) + (IF c \in B THEN 1 ELSE 0) - (IF c \in A THEN 1 ELSE 0)
    BY <1>1, <1>2, OneMoved
<1> QED
    BY <1>1, <1>3 DEF A, B

LEMMA GateCountedStart == GateInit => GateCounted
<1> SUFFICES ASSUME GateInit PROVE GateCounted
    OBVIOUS
<1>1. \A w \in Windows : ToCount(w) = {}
    BY DEF GateInit, NoReq, ToCount, Uncounted
<1>2. \A w \in Windows : Cardinality(ToCount(w)) = 0
    BY <1>1, FS_EmptySet
<1> QED
    BY <1>2, LimitAssumption DEF GateInit, GateCounted, NoReq

(* A request goes on without counting                                        *)
LEMMA GateGoesOn ==
    ASSUME GateInv, GateCounted, NEW c \in Clients, NEW q, req' = [req EXCEPT ![c] = q],
           q.n \in Nat, q.n <= MaxArrivals,
           UNCHANGED <<hits, arrivals>>, timed' \subseteq Windows,
           q.at \in Uncounted("minute") => req[c].at \in Uncounted("minute"),
           q.at \in Uncounted("hour") => req[c].at \in Uncounted("hour")
    PROVE  GateCounted'
<1>1. DOMAIN req = Clients /\ Windows = {"minute", "hour"} /\ arrivals \in Nat
      /\ \A w \in Windows : hits[w] \in Nat
    BY LimitAssumption DEF GateInv, GateCounted, Windows
<1>2. ASSUME NEW w \in Windows PROVE hits'[w] + Cardinality(ToCount(w)') <= arrivals'
  <2>1. /\ Cardinality(ToCount(w)) \in Nat /\ Cardinality(ToCount(w)') \in Nat
        /\ Cardinality(ToCount(w)') <= Cardinality(ToCount(w))
    <3>1. q.at \in Uncounted(w) => req[c].at \in Uncounted(w)
        BY <1>1
    <3> DEFINE P == q.at \in Uncounted(w)  Q == req[c].at \in Uncounted(w)
    <3>2. /\ Cardinality(ToCount(w)) \in Nat /\ Cardinality(ToCount(w)') \in Nat
          /\ Cardinality(ToCount(w)') = Cardinality(ToCount(w)) + (IF P THEN 1 ELSE 0) - (IF Q THEN 1 ELSE 0)
        BY <1>1, ToCountMoves
    <3>3. P => Q
        BY <3>1
    <3> HIDE DEF P, Q
    <3> QED
        BY <3>2, <3>3
  <2>2. hits[w] + Cardinality(ToCount(w)) <= arrivals
    BY DEF GateCounted
  <2> DEFINE x == Cardinality(ToCount(w))  y == Cardinality(ToCount(w)')
  <2> HIDE DEF x, y
  <2>3. x \in Nat /\ y \in Nat /\ y <= x /\ hits[w] + x <= arrivals
    BY <2>1, <2>2 DEF x, y
  <2>4. hits[w] + y <= arrivals
    BY <1>1, <2>3
  <2> QED
    BY <2>4 DEF y
<1>3. \A d \in Clients : req'[d].n <= MaxArrivals
    BY DEF GateInv, GateCounted
<1> QED
    BY <1>2, <1>3 DEF GateCounted

LEMMA GateCountedStep == ASSUME GateInv, GateCounted, [GateNext]_qVars PROVE GateCounted'
<1>0. /\ DOMAIN req = Clients /\ Windows = {"minute", "hour"} /\ arrivals \in Nat
      /\ hits \in [Windows -> Nat] /\ timed \subseteq Windows /\ MaxArrivals \in Nat
      /\ \A c \in Clients : req[c] \in InFlight /\ req[c].n \in Nat /\ req[c].n <= MaxArrivals
      /\ \A w : Cardinality(ToCount(w)) \in Nat
      /\ \A w \in Windows : hits[w] + Cardinality(ToCount(w)) <= arrivals
    BY LimitAssumption, ToCountFinite DEF GateInv, GateCounted, Windows, InFlight
<1>1. CASE UNCHANGED qVars
    BY <1>1 DEF qVars, GateCounted, ToCount
<1>2. ASSUME NEW c \in Clients, Arrives(c) PROVE GateCounted'
  <2> DEFINE q == [NoReq EXCEPT !.at = "minute", !.outer = TRUE, !.answered = answer]
  <2>1. /\ req' = [req EXCEPT ![c] = q] /\ UNCHANGED <<hits, timed>> /\ req[c].at = "none"
        /\ arrivals' = arrivals + 1 /\ arrivals' \in 0..MaxArrivals
    BY <1>0, <1>2 DEF Arrives, NoReq
  <2>2. q.at = "minute" /\ q.n = 0
    BY DEF NoReq
  <2> HIDE DEF q
  <2>3. ASSUME NEW w \in Windows PROVE hits'[w] + Cardinality(ToCount(w)') <= arrivals'
    <3>1. q.at \in Uncounted(w) /\ req[c].at \notin Uncounted(w)
        BY <2>1, <2>2 DEF Uncounted
    <3>2. Cardinality(ToCount(w)') = Cardinality(ToCount(w)) + 1
      <4>1. Cardinality(ToCount(w)') = Cardinality(ToCount(w))
                + (IF q.at \in Uncounted(w) THEN 1 ELSE 0) - (IF req[c].at \in Uncounted(w) THEN 1 ELSE 0)
        BY <1>0, <2>1, ToCountMoves
      <4> QED
        BY <1>0, <3>1, <4>1
    <3> QED
        BY <1>0, <2>1, <3>2
  <2>4. \A d \in Clients : req'[d].n <= MaxArrivals
    BY <1>0, <2>1, <2>2
  <2> QED
    BY <1>0, <2>1, <2>3, <2>4 DEF GateCounted
<1>3. ASSUME NEW c \in Clients, Looks(c) \/ LookFails(c) \/ LimitsFail(c) \/ Refuses(c) \/ Raises(c)
                                \/ Stores(c) \/ ReqDies(c) \/ Succeeds(c)
      PROVE  GateCounted'
  <2>1. UNCHANGED <<hits, timed, arrivals>>
    BY <1>3 DEF Looks, LookFails, LimitsFail, Refuses, Raises, Stores, ReqDies, Succeeds
  <2>2. \E q : /\ req' = [req EXCEPT ![c] = q] /\ q.n \in {0, req[c].n}
               /\ q.at \in {"none", "run", "store", "look"}
    <3>1. NoReq.n = 0 /\ NoReq.at = "none"
        BY DEF NoReq
    <3>2. CASE Looks(c)
      <4> DEFINE q == [req[c] EXCEPT !.at = "run", !.keyed = TRUE, !.inner = TRUE]
      <4>1. req' = [req EXCEPT ![c] = q] \/ req' = [req EXCEPT ![c] = NoReq]
        BY <3>2 DEF Looks, Ends
      <4>2. q.at = "run" /\ q.n = req[c].n
        BY <1>0 DEF InFlight
      <4> QED
        BY <3>1, <4>1, <4>2
    <3>3. CASE LookFails(c)
      <4>1. PICK again \in BOOLEAN : req' = [req EXCEPT ![c] =
               [req[c] EXCEPT !.at = "run", !.keyed = FALSE, !.inner = again, !.answered = FALSE]]
        BY <3>3 DEF LookFails
      <4> DEFINE q == [req[c] EXCEPT !.at = "run", !.keyed = FALSE, !.inner = again, !.answered = FALSE]
      <4>2. q.at = "run" /\ q.n = req[c].n
        BY <1>0 DEF InFlight
      <4> QED
        BY <4>1, <4>2
    <3>4. CASE LimitsFail(c)
      <4>1. PICK again \in BOOLEAN : req' = [req EXCEPT ![c] =
               [req[c] EXCEPT !.at = "look", !.outer = again /\ req[c].at = "minute"]]
        BY <3>4 DEF LimitsFail
      <4> DEFINE q == [req[c] EXCEPT !.at = "look", !.outer = again /\ req[c].at = "minute"]
      <4>2. q.at = "look" /\ q.n = req[c].n
        BY <1>0 DEF InFlight
      <4> QED
        BY <4>1, <4>2
    <3>5. CASE Refuses(c) \/ Stores(c) \/ ReqDies(c)
        BY <3>1, <3>5 DEF Refuses, Stores, ReqDies, Ends
    <3>6. CASE Raises(c)
      <4> DEFINE q == [req[c] EXCEPT !.inner = FALSE, !.keyed = FALSE]
                 p == [req[c] EXCEPT !.outer = FALSE, !.at = "look"]
      <4>1. /\ req[c].at = "run"
            /\ req' = [req EXCEPT ![c] = q] \/ req' = [req EXCEPT ![c] = p] \/ req' = [req EXCEPT ![c] = NoReq]
        BY <3>6 DEF Raises
      <4>2. q.at = "run" /\ q.n = req[c].n /\ p.at = "look" /\ p.n = req[c].n
        BY <1>0, <4>1 DEF InFlight
      <4> QED
        BY <3>1, <4>1, <4>2
    <3>7. CASE Succeeds(c)
      <4> DEFINE q == [req[c] EXCEPT !.at = "store"]
      <4>1. req' = [req EXCEPT ![c] = q] \/ req' = [req EXCEPT ![c] = NoReq]
        BY <3>7 DEF Succeeds, Goes, Ends
      <4>2. q.at = "store" /\ q.n = req[c].n
        BY <1>0 DEF InFlight
      <4> QED
        BY <3>1, <4>1, <4>2
    <3> QED
        BY <1>3, <3>2, <3>3, <3>4, <3>5, <3>6, <3>7
  <2>3. PICK q : /\ req' = [req EXCEPT ![c] = q] /\ q.n \in {0, req[c].n}
                 /\ q.at \in {"none", "run", "store", "look"}
    BY <2>2
  <2>4. q.n \in Nat /\ q.n <= MaxArrivals
    BY <1>0, <2>3
  <2>5. q.at \notin Uncounted("minute") /\ q.at \notin Uncounted("hour")
    BY <2>3 DEF Uncounted
  <2> QED
    BY <1>0, <2>1, <2>3, <2>4, <2>5, GateGoesOn
<1>4. ASSUME NEW c \in Clients, NEW w \in Windows, SetsTime(c, w) PROVE GateCounted'
  <2> DEFINE q == [req[c] EXCEPT !.at = Past(w)]
  <2>1. q.at = Past(w) /\ q.n = req[c].n
    BY <1>0 DEF InFlight
  <2>2. req' = [req EXCEPT ![c] = q] /\ UNCHANGED <<hits, arrivals>> /\ timed' \subseteq Windows
        /\ req[c].at = Expire(w)
    BY <1>0, <1>4 DEF SetsTime, Goes
  <2> HIDE DEF q
  <2>3. /\ q.at \in Uncounted("minute") => req[c].at \in Uncounted("minute")
        /\ q.at \in Uncounted("hour") => req[c].at \in Uncounted("hour")
    BY <1>0, <2>1, <2>2 DEF Uncounted, Past, Expire
  <2> QED
    BY <1>0, <2>1, <2>2, <2>3, GateGoesOn
<1>5. ASSUME NEW c \in Clients, NEW w \in Windows, Counts(c, w) PROVE GateCounted'
  <2> DEFINE n == hits[w] + 1
             at == IF n = 1 THEN Expire(w) ELSE Past(w)
             q == [req[c] EXCEPT !.n = n, !.at = at]
  <2>1. /\ req' = [req EXCEPT ![c] = q] \/ req' = [req EXCEPT ![c] = NoReq]
        /\ req[c].at = w /\ hits' = [hits EXCEPT ![w] = n] /\ UNCHANGED <<timed, arrivals>>
    BY <1>5 DEF Counts
  <2>2. q.n = n /\ q.at = at /\ at \in {Expire(w), Past(w)} /\ NoReq.n = 0 /\ NoReq.at = "none"
    BY <1>0 DEF InFlight, NoReq
  <2> HIDE DEF at, q
  <2>3. PICK p : req' = [req EXCEPT ![c] = p] /\ p.n \in {0, n} /\ p.at \in {"none", Expire(w), Past(w)}
    BY <2>1, <2>2
  <2>4. /\ p.at \notin Uncounted(w) /\ req[c].at \in Uncounted(w)
        /\ \A v \in Windows : p.at \in Uncounted(v) => req[c].at \in Uncounted(v)
    BY <1>0, <2>1, <2>3 DEF Uncounted, Past, Expire
  <2>5. \A v \in Windows : /\ Cardinality(ToCount(v)') \in Nat
                           /\ Cardinality(ToCount(v)') <= Cardinality(ToCount(v))
    <3> SUFFICES ASSUME NEW v \in Windows
                 PROVE  /\ Cardinality(ToCount(v)') \in Nat
                        /\ Cardinality(ToCount(v)') <= Cardinality(ToCount(v))
        OBVIOUS
    <3> DEFINE P == p.at \in Uncounted(v)  Q == req[c].at \in Uncounted(v)
    <3>2. /\ Cardinality(ToCount(v)) \in Nat /\ Cardinality(ToCount(v)') \in Nat
          /\ Cardinality(ToCount(v)') = Cardinality(ToCount(v)) + (IF P THEN 1 ELSE 0) - (IF Q THEN 1 ELSE 0)
        BY <1>0, <2>3, ToCountMoves
    <3>3. P => Q
        BY <2>4
    <3> HIDE DEF P, Q
    <3> QED
        BY <3>2, <3>3
  <2>6. Cardinality(ToCount(w)') = Cardinality(ToCount(w)) - 1 /\ Cardinality(ToCount(w)') \in Nat
    <3>1. Cardinality(ToCount(w)') = Cardinality(ToCount(w))
                + (IF p.at \in Uncounted(w) THEN 1 ELSE 0) - (IF req[c].at \in Uncounted(w) THEN 1 ELSE 0)
        BY <1>0, <2>3, ToCountMoves
    <3> QED
        BY <1>0, <2>4, <2>5, <3>1
  <2>7. n <= MaxArrivals
    <3>1. hits[w] + Cardinality(ToCount(w)) <= arrivals /\ arrivals <= MaxArrivals /\ hits[w] \in Nat
        BY <1>0 DEF GateCounted
    <3> QED
        BY <1>0, <2>6, <3>1
  <2>8. ASSUME NEW v \in Windows PROVE hits'[v] + Cardinality(ToCount(v)') <= arrivals'
    <3>1. hits[v] + Cardinality(ToCount(v)) <= arrivals /\ hits[v] \in Nat
        BY <1>0
    <3>2. CASE v = w
      <4>1. hits'[v] = hits[v] + 1
        BY <1>0, <2>1, <3>2
      <4> QED
        BY <1>0, <2>1, <2>6, <3>1, <3>2, <4>1
    <3>3. CASE v # w
      <4>1. hits'[v] = hits[v]
        BY <1>0, <2>1, <3>3
      <4> QED
        BY <1>0, <2>1, <2>5, <3>1, <4>1
    <3> QED
        BY <3>2, <3>3
  <2>9. \A d \in Clients : req'[d].n <= MaxArrivals
    BY <1>0, <2>3, <2>7
  <2> QED
    BY <1>0, <2>1, <2>8, <2>9 DEF GateCounted
<1>6. ASSUME NEW w \in Windows, WindowEnds(w) PROVE GateCounted'
  <2>1. hits' = [hits EXCEPT ![w] = 0] /\ timed' \subseteq Windows /\ req' = req /\ arrivals' = arrivals
        /\ \A v : ToCount(v)' = ToCount(v)
    BY <1>0, <1>6 DEF WindowEnds, ToCount
  <2>2. \A v \in Windows : hits'[v] \in Nat /\ hits'[v] <= hits[v] /\ hits[v] \in Nat
    BY <1>0, <2>1
  <2>3. \A v \in Windows : hits'[v] + Cardinality(ToCount(v)) <= arrivals
    BY <1>0, <2>2
  <2> QED
    BY <1>0, <2>1, <2>3 DEF GateCounted
<1>7. CASE AnswerExpires
  <2>1. req' = [c \in Clients |-> [req[c] EXCEPT !.answered = FALSE]]
        /\ UNCHANGED <<hits, timed, arrivals>>
    BY <1>7 DEF AnswerExpires
  <2>2. \A c \in Clients : req'[c].at = req[c].at /\ req'[c].n = req[c].n
    BY <1>0, <2>1 DEF InFlight
  <2>3. \A v : ToCount(v)' = ToCount(v)
    BY <2>2 DEF ToCount
  <2> QED
    BY <2>1, <2>2, <2>3 DEF GateCounted
<1> QED
    BY <1>0, <1>1, <1>2, <1>3, <1>4, <1>5, <1>6, <1>7 DEF GateNext

(* No counter of the gate passes the requests ever made: each is counted     *)
(* once in a window.                                                         *)
THEOREM GateTypes == GateSpec => []GateTypeOK
<1>1. ASSUME GateInv, GateCounted PROVE GateTypeOK
  <2>1. \A w \in Windows : Cardinality(ToCount(w)) \in Nat
    BY ToCountFinite
  <2>2. /\ arrivals \in Nat /\ arrivals <= MaxArrivals /\ MaxArrivals \in Nat
    BY LimitAssumption, <1>1 DEF GateCounted
  <2>3. \A w \in Windows : hits[w] \in 0..MaxArrivals /\ admitted[w] \in 0..MaxArrivals
    <3> SUFFICES ASSUME NEW w \in Windows
                 PROVE  hits[w] \in 0..MaxArrivals /\ admitted[w] \in 0..MaxArrivals
        OBVIOUS
    <3>1. /\ hits[w] \in Nat /\ admitted[w] \in Nat /\ admitted[w] <= hits[w]
          /\ hits[w] + Cardinality(ToCount(w)) <= arrivals
        BY <1>1 DEF GateInv, GateCounted
    <3> QED
        BY <2>1, <2>2, <3>1
  <2>4. req \in [Clients -> Req]
    <3>1. \A c \in Clients : req[c] \in InFlight /\ req[c].n \in 0..MaxArrivals
        BY <1>1, <2>2 DEF GateInv, GateCounted, InFlight
    <3>2. Steps = {"none", "run", "store", "look"} \cup Windows \cup {Expire(w) : w \in Windows}
        BY DEF Steps, Windows, Expire
    <3>3. \A c \in Clients : req[c] \in Req
        BY <3>1, <3>2 DEF InFlight, Req
    <3> QED
        BY <1>1, <3>3 DEF GateInv
  <2> QED
    BY <1>1, <2>3, <2>4 DEF GateTypeOK, GateInv, GateCounted
<1> QED
    BY <1>1, GateInitInv, GateNextInv, GateCountedStart, GateCountedStep, PTL DEF GateSpec

(***************************************************************************)
(* The slots. The steps a request can be at, counted: a turn of one request *)
(* moves it from one count to another.                                      *)
(***************************************************************************)

Doing(at) == {c \in Callers : doing[c].at = at}
At(q, at) == IF q.at = at THEN 1 ELSE 0

SlotsInv ==
    /\ taken \in Nat /\ ceiling \in Ceilings
    /\ inserted \in Nat /\ units \subseteq 1..inserted /\ free \subseteq 1..inserted
    /\ unpaid \in Nat /\ lost \in Nat
    /\ doing = [c \in Callers |-> doing[c]]
    /\ ~mishaps =>
          /\ taken + Owing("take") + unpaid = Cardinality(Slotted) + Owing("release") + lost
          /\ taken + Owing("insert") + Owing("take") <= ceiling + Cardinality(Callers) - 1

LEMMA Owed ==
    \A at : /\ IsFiniteSet(Doing(at)) /\ Owing(at) = Cardinality(Doing(at)) /\ Owing(at) \in Nat
            /\ (Doing(at) = {} => Owing(at) = 0)
<1> SUFFICES ASSUME NEW at
             PROVE  /\ IsFiniteSet(Doing(at)) /\ Owing(at) = Cardinality(Doing(at)) /\ Owing(at) \in Nat
                    /\ (Doing(at) = {} => Owing(at) = 0)
    OBVIOUS
<1>1. Doing(at) \in SUBSET Callers /\ Owing(at) = Cardinality(Doing(at))
    BY DEF Doing, Owing
<1>2. IsFiniteSet(Doing(at))
    BY <1>1, PlanAssumption, FS_Subset
<1> QED
    BY <1>1, <1>2, FS_CardinalityType, FS_EmptySet

LEMMA Turned ==
    ASSUME NEW c \in Callers, NEW q, doing = [d \in Callers |-> doing[d]],
           doing' = [doing EXCEPT ![c] = q], NEW at
    PROVE  Owing(at)' = Owing(at) + At(q, at) - At(doing[c], at) /\ Owing(at)' \in Nat
<1> DEFINE Now == {d \in Callers : doing'[d].at = at}
           Rest == Doing(at) \ {c}
<1>1. Owing(at)' = Cardinality(Now)
    BY DEF Owing
<1>2. Now = IF q.at = at THEN Rest \cup {c} ELSE Rest
    BY DEF Doing
<1>3. c \notin Rest /\ (c \in Doing(at) <=> doing[c].at = at)
    BY DEF Doing
<1>4. IsFiniteSet(Doing(at)) /\ Owing(at) = Cardinality(Doing(at)) /\ Owing(at) \in Nat
    BY Owed
<1> HIDE DEF Now, Rest
<1>5. /\ IsFiniteSet(Rest)
      /\ Cardinality(Rest) = IF c \in Doing(at) THEN Owing(at) - 1 ELSE Owing(at)
    BY <1>4, FS_RemoveElement DEF Rest
<1>6. Cardinality(Rest \cup {c}) = Cardinality(Rest) + 1 /\ IsFiniteSet(Rest \cup {c})
    BY <1>3, <1>5, FS_AddElement
<1>7. Cardinality(Now) \in Nat /\ Cardinality(Rest) \in Nat
    BY <1>2, <1>5, <1>6, FS_CardinalityType
<1> QED
    BY <1>1, <1>2, <1>3, <1>4, <1>5, <1>6, <1>7 DEF At

LEMMA UnitsFinite == ASSUME SlotsInv PROVE IsFiniteSet(Slotted) /\ Cardinality(Slotted) \in Nat
<1>0. inserted \in Int /\ Slotted \in SUBSET (1..inserted)
    BY DEF SlotsInv, Slotted
<1>1. IsFiniteSet(1..inserted) /\ Slotted \in SUBSET (1..inserted)
    BY <1>0, FS_Interval
<1>2. IsFiniteSet(Slotted)
    BY <1>1, FS_Subset
<1> QED
    BY <1>2, FS_CardinalityType

LEMMA Removed ==
    ASSUME NEW S, IsFiniteSet(S), NEW u
    PROVE  /\ Cardinality(S \ {u}) \in Nat
           /\ u \in S => Cardinality(S \ {u}) = Cardinality(S) - 1
           /\ u \notin S => Cardinality(S \ {u}) = Cardinality(S)
<1>1. /\ IsFiniteSet(S \ {u})
      /\ Cardinality(S \ {u}) = IF u \in S THEN Cardinality(S) - 1 ELSE Cardinality(S)
    BY FS_RemoveElement
<1> QED
    BY <1>1, FS_CardinalityType

LEMMA SlotsInitInv == SlotsInit => SlotsInv
<1> SUFFICES ASSUME SlotsInit PROVE SlotsInv
    OBVIOUS
<1>1. \A at \in {"take", "release", "insert"} : Owing(at) = 0
    BY Owed DEF SlotsInit, Doing, Idle
<1>2. Slotted = {} /\ Cardinality(Callers) \in Nat \ {0} /\ ceiling \in Nat
    BY PlanAssumption, FS_EmptySet, FS_CardinalityType DEF SlotsInit, Slotted
<1>3. Cardinality(Slotted) = 0
    BY <1>2, FS_EmptySet
<1> QED
    BY <1>1, <1>2, <1>3 DEF SlotsInit, SlotsInv

(* Idle requests owe nothing: a request about to look is one of those the    *)
(* ceiling may yet be passed by.                                             *)
LEMMA IdleOwesNothing ==
    ASSUME NEW c \in Callers, doing[c] = Idle
    PROVE  Owing("insert") + Owing("take") <= Cardinality(Callers) - 1
<1> DEFINE I == Doing("insert")  T == Doing("take")
<1>1. /\ I \cup T \in SUBSET (Callers \ {c}) /\ I \cap T = {}
    BY DEF Doing, Idle
<1>2. /\ IsFiniteSet(I) /\ IsFiniteSet(T) /\ Owing("insert") = Cardinality(I)
      /\ Owing("take") = Cardinality(T) /\ Owing("insert") \in Nat /\ Owing("take") \in Nat
    BY Owed
<1> HIDE DEF I, T
<1>3. /\ IsFiniteSet(Callers \ {c}) /\ Cardinality(Callers \ {c}) = Cardinality(Callers) - 1
    BY PlanAssumption, FS_RemoveElement
<1>4. Cardinality(I \cup T) <= Cardinality(Callers \ {c})
    BY <1>1, <1>3, FS_Subset
<1>5. Cardinality(I \cup T) = Cardinality(I) + Cardinality(T)
  <2>1. Cardinality(I \cup T) = Cardinality(I) + Cardinality(T) - Cardinality(I \cap T)
    BY <1>2, FS_Union
  <2>2. Cardinality(I \cap T) = 0
    BY <1>1, FS_EmptySet
  <2> QED
    BY <1>2, <2>1, <2>2
<1> QED
    BY <1>2, <1>3, <1>4, <1>5

LEMMA SlotsNextInv == ASSUME SlotsInv, [SlotsNext]_slotVars PROVE SlotsInv'
<1> USE DEF At
<1>0. /\ taken \in Nat /\ ceiling \in Nat /\ Cardinality(Callers) \in Nat \ {0}
      /\ IsFiniteSet(Slotted) /\ Cardinality(Slotted) \in Nat /\ unpaid \in Nat /\ lost \in Nat
      /\ \A at : Owing(at) \in Nat
      /\ doing = [c \in Callers |-> doing[c]]
    BY PlanAssumption, UnitsFinite, Owed, FS_CardinalityType, FS_EmptySet DEF SlotsInv
<1>1. CASE UNCHANGED slotVars
    BY <1>1 DEF slotVars, SlotsInv, Owing, Slotted
<1>11. ASSUME UNCHANGED <<units, free>> PROVE Slotted' = Slotted
    BY <1>11 DEF Slotted
<1>2. ASSUME NEW c \in Callers, NEW q, Turns(c, q)
      PROVE  /\ doing' = [d \in Callers |-> doing'[d]]
             /\ \A at : Owing(at)' = Owing(at) + At(q, at) - At(doing[c], at) /\ Owing(at)' \in Nat
    BY <1>0, <1>2, Turned DEF Turns
<1>3. ASSUME NEW c \in Callers, ChecksSlot(c) PROVE SlotsInv'
  <2>1. taken < ceiling /\ Owing("insert") + Owing("take") <= Cardinality(Callers) - 1
    BY <1>0, <1>3, IdleOwesNothing DEF ChecksSlot, Full
  <2>2. /\ doing' = [d \in Callers |-> doing'[d]]
        /\ Owing("insert")' = Owing("insert") + 1 /\ Owing("take")' = Owing("take")
        /\ Owing("release")' = Owing("release")
    BY <1>0, <1>2, <1>3 DEF ChecksSlot, Idle
  <2>3. Slotted' = Slotted
    BY <1>3, <1>11 DEF ChecksSlot
  <2> QED
    BY <1>0, <1>3, <2>1, <2>2, <2>3 DEF ChecksSlot, SlotsInv
<1>4. ASSUME NEW c \in Callers, InsertsUnit(c) PROVE SlotsInv'
  <2>1. /\ doing' = [d \in Callers |-> doing'[d]]
        /\ Owing("insert")' = Owing("insert") - 1 /\ Owing("take")' = Owing("take") + 1
        /\ Owing("release")' = Owing("release")
    BY <1>0, <1>2, <1>4 DEF InsertsUnit
  <2>2. inserted + 1 \notin units /\ inserted + 1 \notin free
    BY DEF SlotsInv
  <2>3. Slotted' = Slotted \cup {inserted + 1} /\ inserted + 1 \notin Slotted
    BY <1>4, <2>2 DEF InsertsUnit, Slotted
  <2>4. Cardinality(Slotted') = Cardinality(Slotted) + 1
    BY <1>0, <2>3, FS_AddElement
  <2>5. inserted' \in Nat /\ units' \subseteq 1..inserted' /\ free' \subseteq 1..inserted'
    BY <1>4 DEF InsertsUnit, SlotsInv
  <2> QED
    BY <1>0, <1>4, <2>1, <2>4, <2>5 DEF InsertsUnit, SlotsInv
<1>5. ASSUME NEW c \in Callers, TakesSlot(c) PROVE SlotsInv'
  <2>1. /\ doing' = [d \in Callers |-> doing'[d]]
        /\ Owing("insert")' = Owing("insert") /\ Owing("take")' = Owing("take") - 1
        /\ Owing("release")' = Owing("release")
    BY <1>0, <1>2, <1>5 DEF TakesSlot, Idle
  <2>2. Slotted' = Slotted
    BY <1>5, <1>11 DEF TakesSlot
  <2> QED
    BY <1>0, <1>5, <2>1, <2>2 DEF TakesSlot, SlotsInv
<1>6. ASSUME NEW c \in Callers, NEW u \in units, LoadsUnit(c, u) PROVE SlotsInv'
  <2>1. /\ doing' = [d \in Callers |-> doing'[d]]
        /\ \A at \in {"insert", "take", "release"} : Owing(at)' = Owing(at)
    BY <1>0, <1>2, <1>6 DEF LoadsUnit, Idle
  <2>2. Slotted' = Slotted
    BY <1>6, <1>11 DEF LoadsUnit
  <2> QED
    BY <1>0, <1>6, <2>1, <2>2 DEF LoadsUnit, SlotsInv
<1>7. ASSUME NEW c \in Callers, DeletesUnit(c) PROVE SlotsInv'
  <2>1. /\ doing' = [d \in Callers |-> doing'[d]]
        /\ Owing("insert")' = Owing("insert") /\ Owing("take")' = Owing("take")
        /\ Owing("release")' = Owing("release") + 1
    BY <1>0, <1>2, <1>7 DEF DeletesUnit
  <2> DEFINE u == doing[c].unit
  <2>2. /\ Slotted' = Slotted \ {u} /\ (~mishaps' => ~mishaps /\ u \in units)
        /\ unpaid' = (IF u \in units \cap free THEN unpaid + 1 ELSE unpaid)
        /\ UNCHANGED <<taken, ceiling, free, inserted, lost>> /\ units' \subseteq units
    BY <1>7 DEF DeletesUnit, Slotted
  <2>3. u \in units => (u \in Slotted <=> u \notin free)
    BY DEF Slotted
  <2> HIDE DEF u
  <2>4. /\ u \in Slotted => Cardinality(Slotted') = Cardinality(Slotted) - 1
        /\ u \notin Slotted => Cardinality(Slotted') = Cardinality(Slotted)
        /\ Cardinality(Slotted') \in Nat
    BY <1>0, <2>2, Removed
  <2>5. ~mishaps' => ~mishaps /\ Cardinality(Slotted') - unpaid' = Cardinality(Slotted) - unpaid - 1
    BY <1>0, <2>2, <2>3, <2>4
  <2>6. unpaid' \in Nat
    BY <1>0, <2>2
  <2> QED
    BY <1>0, <2>1, <2>2, <2>4, <2>5, <2>6 DEF SlotsInv
<1>8. ASSUME NEW c \in Callers, ReleasesSlot(c) PROVE SlotsInv'
  <2>1. /\ doing' = [d \in Callers |-> doing'[d]]
        /\ Owing("insert")' = Owing("insert") /\ Owing("take")' = Owing("take")
        /\ Owing("release")' = Owing("release") - 1
    BY <1>0, <1>2, <1>8 DEF ReleasesSlot, Idle
  <2>2. taken' = IF taken = 0 THEN 0 ELSE taken - 1
    BY <1>8 DEF ReleasesSlot
  <2>3. taken' \in Nat /\ taken' <= taken /\ unpaid' \in Nat
        /\ (~mishaps' => ~mishaps /\ taken' + unpaid' = taken + unpaid - 1)
    BY <1>0, <1>8, <2>2 DEF ReleasesSlot, NoneTaken
  <2>4. UNCHANGED <<ceiling, units, free, inserted, lost>> /\ Slotted' = Slotted
    BY <1>8, <1>11 DEF ReleasesSlot
  <2> QED
    BY <1>0, <2>1, <2>3, <2>4 DEF SlotsInv
<1>9. ASSUME NEW c \in Callers, CallDies(c) PROVE SlotsInv'
  <2>1. /\ doing' = [d \in Callers |-> doing'[d]]
        /\ \A at : Owing(at)' = Owing(at) + At(Idle, at) - At(doing[c], at) /\ Owing(at)' \in Nat
    BY <1>2, <1>9 DEF CallDies
  <2>2. ~mishaps' => ~mishaps /\ doing[c].at # "take" /\ doing[c].at # "release"
    BY <1>9 DEF CallDies
  <2>3. UNCHANGED <<taken, ceiling, units, free, inserted, unpaid, lost>> /\ Slotted' = Slotted
    BY <1>9, <1>11 DEF CallDies
  <2>4. ~mishaps' => Owing("take")' = Owing("take") /\ Owing("release")' = Owing("release")
    <3>1. ASSUME NEW at, doing[c].at # at, at # "none" PROVE Owing(at)' = Owing(at)
        BY <1>0, <2>1, <3>1 DEF Idle
    <3> QED
        BY <2>2, <3>1
  <2>5. Owing("insert")' <= Owing("insert") /\ Owing("insert")' \in Nat
    BY <1>0, <2>1 DEF Idle
  <2> QED
    BY <1>0, <2>1, <2>2, <2>3, <2>4, <2>5 DEF SlotsInv
<1>10. ASSUME NEW n \in Ceilings, SetTier(n) PROVE SlotsInv'
  <2>1. /\ n \in Nat /\ taken <= n /\ ceiling' = n
        /\ UNCHANGED <<taken, units, free, inserted, doing, unpaid, lost>> /\ Slotted' = Slotted
        /\ \A at : Owing(at)' = Owing(at)
    BY <1>10, <1>11, PlanAssumption DEF SetTier, Owing
  <2>2. CASE n < ceiling
    <3>1. ~mishaps' => ~mishaps /\ \A c \in Callers : doing[c] = Idle
        BY <1>10, <2>2 DEF SetTier
    <3>2. ~mishaps' => Doing("insert") = {} /\ Doing("take") = {}
        BY <3>1 DEF Doing, Idle
    <3>3. ~mishaps' => Owing("insert") = 0 /\ Owing("take") = 0
        BY <3>2, Owed
    <3> QED
        BY <1>0, <2>1, <3>1, <3>3 DEF SlotsInv
  <2>3. CASE ~(n < ceiling)
    <3>1. ~mishaps' => ~mishaps
        BY <1>10, <2>3 DEF SetTier
    <3> QED
        BY <1>0, <2>1, <2>3, <3>1 DEF SlotsInv
  <2> QED
    BY <2>2, <2>3
<1>12. ASSUME UNCHANGED doing PROVE \A at : Owing(at)' = Owing(at)
    BY <1>12 DEF Owing
<1>13. ASSUME InsertsFree PROVE SlotsInv'
  <2>1. inserted + 1 \notin units
    BY DEF SlotsInv
  <2>2. Slotted' = Slotted
    BY <1>13, <2>1 DEF InsertsFree, Slotted
  <2>3. inserted' \in Nat /\ units' \subseteq 1..inserted' /\ free' \subseteq 1..inserted'
    BY <1>13 DEF InsertsFree, SlotsInv
  <2> QED
    BY <1>0, <1>12, <1>13, <2>2, <2>3 DEF InsertsFree, SlotsInv
<1>14. ASSUME NEW u \in units, UnitVanishes(u) PROVE SlotsInv'
  <2>1. /\ Slotted' = Slotted \ {u} /\ (u \in Slotted <=> u \notin free) /\ units' \subseteq units
        /\ lost' = (IF u \in free THEN lost ELSE lost + 1)
        /\ UNCHANGED <<taken, ceiling, free, inserted, doing, mishaps, unpaid>>
    BY <1>14 DEF UnitVanishes, Slotted
  <2>2. /\ u \in Slotted => Cardinality(Slotted') = Cardinality(Slotted) - 1
        /\ u \notin Slotted => Cardinality(Slotted') = Cardinality(Slotted)
        /\ Cardinality(Slotted') \in Nat
    BY <1>0, <2>1, Removed
  <2>3. lost' \in Nat /\ Cardinality(Slotted') + lost' = Cardinality(Slotted) + lost
    BY <1>0, <2>1, <2>2
  <2> QED
    BY <1>0, <1>12, <2>1, <2>2, <2>3 DEF SlotsInv
<1> QED
    BY <1>1, <1>3, <1>4, <1>5, <1>6, <1>7, <1>8, <1>9, <1>10, <1>13, <1>14 DEF SlotsNext

(***************************************************************************)
(* The meter. What a call has read of the period and of the clock is of the *)
(* past, and so is the period.                                              *)
(***************************************************************************)

MeterInv ==
    /\ queries \in Nat /\ counted \in Nat /\ period \in Nat /\ month \in Nat
    /\ period <= month
    /\ metering = [c \in Callers |-> metering[c]]
    /\ \A c \in Callers :
          /\ metering[c].at \in {"query", "sweep"} => metering[c].read \in Nat
          /\ metering[c].at # "none" => metering[c].now \in Nat /\ metering[c].now <= month
    /\ period = month => queries <= counted

LEMMA MeterNextInv == ASSUME MeterInv, [MeterNext]_meterVars PROVE MeterInv'
<1>1. CASE UNCHANGED meterVars
    BY <1>1 DEF meterVars, MeterInv
<1>2. ASSUME NEW c \in Callers, ReadsPeriod(c) PROVE MeterInv'
    BY <1>2 DEF ReadsPeriod, MeterInv
<1>7. ASSUME NEW c \in Callers, SweepStarts(c) PROVE MeterInv'
    BY <1>7 DEF SweepStarts, MeterInv
<1>8. ASSUME NEW c \in Callers, SweepReads(c) PROVE MeterInv'
    BY <1>8 DEF SweepReads, MeterInv, Idle
<1>3. ASSUME NEW c \in Callers, CountsQuery(c) PROVE MeterInv'
    BY <1>3 DEF CountsQuery, MeterInv, Count, Period, RolledOver, Idle
<1>4. ASSUME NEW c \in Callers, Sweeps(c) PROVE MeterInv'
    BY <1>4 DEF Sweeps, MeterInv, Count, Period, RolledOver, Idle
<1>5. ASSUME NEW c \in Callers, MeteringFails(c) PROVE MeterInv'
    BY <1>5 DEF MeteringFails, MeterInv, Idle
<1>6. CASE MonthEnds
    BY <1>6 DEF MonthEnds, MeterInv
<1> QED
    BY <1>1, <1>2, <1>3, <1>4, <1>5, <1>6, <1>7, <1>8 DEF MeterNext

(* Whatever overlaps, a tenant's slots are those of the units that took one,  *)
(* up to the slots released for others and the units gone without a release; *)
(* these units pass the ceiling by no more than the requests in flight        *)
(* together and the former; and no query of last month is charged to this one *)
(* (pricing_service.py, api/v1/agents.py, insight_agent_service.py).         *)
THEOREM PlanAlwaysHolds == SlotsSpec /\ MeterSpec => []PlanHolds
<1>1. MeterInit => MeterInv
    BY DEF MeterInit, MeterInv, Idle
<1>2. SlotsInv /\ MeterInv => PlanHolds
  <2> SUFFICES ASSUME SlotsInv, MeterInv PROVE PlanHolds
    OBVIOUS
  <2>1. /\ ceiling \in Nat /\ Cardinality(Callers) \in Nat /\ Cardinality(Slotted) \in Nat
        /\ unpaid \in Nat /\ lost \in Nat /\ taken \in Nat /\ \A at : Owing(at) \in Nat
    BY PlanAssumption, UnitsFinite, Owed, FS_CardinalityType DEF SlotsInv
  <2> QED
    BY <2>1 DEF SlotsInv, MeterInv, PlanHolds, SlotsCounted, OverByRaceOnly, NeverOvercharged
<1> QED
    BY <1>1, <1>2, SlotsInitInv, SlotsNextInv, MeterNextInv, PTL DEF SlotsSpec, MeterSpec

(* The slots taken and about to be, and what each request is doing           *)
SlotsBounded ==
    /\ taken + Owing("take") <= inserted /\ inserted <= MaxUnits
    /\ doing \in [Callers -> PlanCalls] /\ mishaps \in BOOLEAN

LEMMA SlotsBoundedStart == SlotsInit => SlotsBounded
<1> SUFFICES ASSUME SlotsInit PROVE SlotsBounded
    OBVIOUS
<1>1. Doing("take") = {}
    BY DEF SlotsInit, Doing, Idle
<1>2. Owing("take") = 0
    BY <1>1, Owed
<1>3. Idle \in PlanCalls
    BY DEF Idle, PlanCalls
<1>4. taken = 0 /\ inserted = 0 /\ doing \in [Callers -> PlanCalls] /\ mishaps \in BOOLEAN
    BY <1>3 DEF SlotsInit
<1> QED
    BY <1>2, <1>4, PlanAssumption DEF SlotsBounded

LEMMA SlotsBoundedStep == ASSUME SlotsInv, SlotsBounded, [SlotsNext]_slotVars PROVE SlotsBounded'
<1> USE DEF At
<1>0. /\ taken \in Nat /\ inserted \in Nat /\ inserted <= MaxUnits /\ MaxUnits \in Nat
      /\ Owing("take") \in Nat /\ taken + Owing("take") <= inserted
      /\ doing = [c \in Callers |-> doing[c]] /\ units \subseteq 1..inserted
      /\ doing \in [Callers -> PlanCalls] /\ mishaps \in BOOLEAN
    BY PlanAssumption, Owed DEF SlotsInv, SlotsBounded
<1>1. CASE UNCHANGED slotVars
    BY <1>1 DEF slotVars, SlotsBounded, Owing
<1>2. ASSUME NEW c \in Callers, NEW q \in PlanCalls, Turns(c, q)
      PROVE  /\ doing' \in [Callers -> PlanCalls] /\ Owing("take")' \in Nat
             /\ Owing("take")' = Owing("take") + At(q, "take") - At(doing[c], "take")
    BY <1>0, <1>2, Turned DEF Turns
<1>3. Idle \in PlanCalls /\ \A at \in {"insert", "take", "release"} : [at |-> at] \in PlanCalls
    BY DEF Idle, PlanCalls
<1>4. ASSUME NEW c \in Callers, ChecksSlot(c) PROVE SlotsBounded'
  <2>1. doing[c] = Idle /\ Turns(c, [at |-> "insert"]) /\ UNCHANGED <<taken, inserted, mishaps>>
    BY <1>4 DEF ChecksSlot
  <2>2. doing' \in [Callers -> PlanCalls] /\ Owing("take")' = Owing("take")
    BY <1>0, <1>2, <1>3, <2>1 DEF Idle
  <2> QED
    BY <1>0, <2>1, <2>2 DEF SlotsBounded
<1>5. ASSUME NEW c \in Callers, InsertsUnit(c) PROVE SlotsBounded'
  <2>1. doing[c].at = "insert" /\ inserted < MaxUnits /\ inserted' = inserted + 1
        /\ Turns(c, [at |-> "take"]) /\ UNCHANGED <<taken, mishaps>>
    BY <1>5 DEF InsertsUnit
  <2>2. doing' \in [Callers -> PlanCalls] /\ Owing("take")' = Owing("take") + 1
    BY <1>0, <1>2, <1>3, <2>1
  <2> QED
    BY <1>0, <2>1, <2>2 DEF SlotsBounded
<1>6. ASSUME NEW c \in Callers, TakesSlot(c) PROVE SlotsBounded'
  <2>1. doing[c].at = "take" /\ taken' = taken + 1 /\ Turns(c, Idle) /\ UNCHANGED <<inserted, mishaps>>
    BY <1>6 DEF TakesSlot
  <2>2. doing' \in [Callers -> PlanCalls] /\ Owing("take")' = Owing("take") - 1
    BY <1>0, <1>2, <1>3, <2>1 DEF Idle
  <2> QED
    BY <1>0, <2>1, <2>2 DEF SlotsBounded
<1>7. ASSUME NEW c \in Callers, NEW u \in units, LoadsUnit(c, u) PROVE SlotsBounded'
  <2> DEFINE q == [at |-> "delete", unit |-> u]
  <2>1. doing[c] = Idle /\ Turns(c, q) /\ UNCHANGED <<taken, inserted, mishaps>>
    BY <1>7 DEF LoadsUnit
  <2>2. q \in PlanCalls /\ q.at = "delete"
    BY <1>0 DEF PlanCalls
  <2> HIDE DEF q
  <2>3. doing' \in [Callers -> PlanCalls] /\ Owing("take")' = Owing("take")
    BY <1>0, <1>2, <2>1, <2>2 DEF Idle
  <2> QED
    BY <1>0, <2>1, <2>3 DEF SlotsBounded
<1>8. ASSUME NEW c \in Callers, DeletesUnit(c) PROVE SlotsBounded'
  <2>1. doing[c].at = "delete" /\ mishaps' \in BOOLEAN
        /\ Turns(c, [at |-> "release"]) /\ UNCHANGED <<taken, inserted>>
    BY <1>0, <1>8 DEF DeletesUnit
  <2>2. doing' \in [Callers -> PlanCalls] /\ Owing("take")' = Owing("take")
    BY <1>0, <1>2, <1>3, <2>1
  <2> QED
    BY <1>0, <2>1, <2>2 DEF SlotsBounded
<1>9. ASSUME NEW c \in Callers, ReleasesSlot(c) PROVE SlotsBounded'
  <2>1. doing[c].at = "release" /\ taken' = (IF taken = 0 THEN 0 ELSE taken - 1)
        /\ Turns(c, Idle) /\ UNCHANGED inserted
    BY <1>9 DEF ReleasesSlot
  <2>2. doing' \in [Callers -> PlanCalls] /\ Owing("take")' = Owing("take")
    BY <1>0, <1>2, <1>3, <2>1 DEF Idle
  <2>3. mishaps' \in BOOLEAN
    BY <1>0, <1>9 DEF ReleasesSlot, NoneTaken
  <2> QED
    BY <1>0, <2>1, <2>2, <2>3 DEF SlotsBounded
<1>10. ASSUME NEW c \in Callers, CallDies(c) PROVE SlotsBounded'
  <2>1. Turns(c, Idle) /\ UNCHANGED <<taken, inserted>>
    BY <1>10 DEF CallDies
  <2>2. doing' \in [Callers -> PlanCalls] /\ Owing("take")' <= Owing("take") /\ Owing("take")' \in Nat
    BY <1>0, <1>2, <1>3, <2>1 DEF Idle
  <2>3. mishaps' \in BOOLEAN
    BY <1>10 DEF CallDies
  <2> QED
    BY <1>0, <2>1, <2>2, <2>3 DEF SlotsBounded
<1>11. ASSUME NEW n \in Ceilings, SetTier(n) PROVE SlotsBounded'
    BY <1>0, <1>11 DEF SetTier, SlotsBounded, Owing
<1>12. ASSUME InsertsFree PROVE SlotsBounded'
    BY <1>0, <1>12 DEF InsertsFree, SlotsBounded, Owing
<1>13. ASSUME NEW u \in units, UnitVanishes(u) PROVE SlotsBounded'
    BY <1>0, <1>13 DEF UnitVanishes, SlotsBounded, Owing
<1> QED
    BY <1>1, <1>4, <1>5, <1>6, <1>7, <1>8, <1>9, <1>10, <1>11, <1>12, <1>13 DEF SlotsNext

(* The queries of the months there were, and what each metering has read     *)
MeterBounded ==
    /\ queries <= month * MaxQueries + counted
    /\ month <= MaxMonth /\ counted <= MaxQueries
    /\ metering \in [Callers -> Meterings]

LEMMA MeterBoundedStep == ASSUME MeterInv, MeterBounded, [MeterNext]_meterVars PROVE MeterBounded'
<1> DEFINE quota == month * MaxQueries
<1>0. /\ queries \in Nat /\ counted \in Nat /\ month \in Nat /\ MaxQueries \in Nat /\ MaxMonth \in Nat
      /\ quota \in Nat /\ (month + 1) * MaxQueries = quota + MaxQueries
      /\ queries <= quota + counted /\ period \in 0..MaxMonth /\ month \in 0..MaxMonth
      /\ counted <= MaxQueries /\ metering \in [Callers -> Meterings] /\ Idle \in Meterings
    BY PlanAssumption DEF MeterInv, MeterBounded, Meterings, Idle
<1>1. CASE UNCHANGED meterVars
    BY <1>1 DEF meterVars, MeterBounded
<1>2. ASSUME NEW c \in Callers, ReadsPeriod(c) PROVE MeterBounded'
  <2>1. [at |-> "query", read |-> period, now |-> month] \in Meterings
    BY <1>0 DEF Meterings
  <2> QED
    BY <1>0, <1>2, <2>1 DEF ReadsPeriod, MeterBounded
<1>7. ASSUME NEW c \in Callers, SweepStarts(c) PROVE MeterBounded'
  <2>1. [at |-> "clock", now |-> month] \in Meterings
    BY <1>0 DEF Meterings
  <2> QED
    BY <1>0, <1>7, <2>1 DEF SweepStarts, MeterBounded
<1>8. ASSUME NEW c \in Callers, SweepReads(c) PROVE MeterBounded'
  <2>1. metering[c].now \in 0..MaxMonth
    BY <1>0, <1>8 DEF SweepReads, Meterings
  <2>2. [at |-> "sweep", read |-> period, now |-> metering[c].now] \in Meterings
    BY <1>0, <2>1 DEF Meterings
  <2> QED
    BY <1>0, <1>8, <2>2 DEF SweepReads, MeterBounded
<1> HIDE DEF quota
<1>3. ASSUME NEW c \in Callers, CountsQuery(c) PROVE MeterBounded'
  <2>1. Count(metering[c]) \in Nat /\ Count(metering[c]) <= queries
    BY <1>0 DEF Count
  <2>2. queries' = Count(metering[c]) + 1 /\ counted' = counted + 1 /\ counted' <= MaxQueries /\ month' = month
        /\ metering' = [metering EXCEPT ![c] = Idle]
    BY <1>0, <1>3 DEF CountsQuery
  <2>3. queries' <= quota + counted' /\ metering' \in [Callers -> Meterings]
    BY <1>0, <2>1, <2>2
  <2> QED
    BY <1>0, <2>2, <2>3 DEF MeterBounded, quota
<1>4. ASSUME NEW c \in Callers, Sweeps(c) PROVE MeterBounded'
  <2>1. Count(metering[c]) \in Nat /\ Count(metering[c]) <= queries
    BY <1>0 DEF Count
  <2>2. queries' = Count(metering[c]) /\ counted' = counted /\ month' = month
        /\ metering' = [metering EXCEPT ![c] = Idle]
    BY <1>4 DEF Sweeps
  <2>3. queries' <= quota + counted' /\ metering' \in [Callers -> Meterings]
    BY <1>0, <2>1, <2>2
  <2> QED
    BY <1>0, <2>2, <2>3 DEF MeterBounded, quota
<1>5. ASSUME NEW c \in Callers, MeteringFails(c) PROVE MeterBounded'
    BY <1>0, <1>5 DEF MeteringFails, MeterBounded
<1>6. CASE MonthEnds
  <2>1. month' = month + 1 /\ month' <= MaxMonth /\ counted' = 0 /\ queries' = queries /\ metering' = metering
    BY <1>0, <1>6 DEF MonthEnds
  <2>2. month' * MaxQueries = quota + MaxQueries
    BY <1>0, <2>1
  <2>3. queries' <= month' * MaxQueries + counted'
    BY <1>0, <2>1, <2>2
  <2> QED
    BY <1>0, <2>1, <2>3 DEF MeterBounded
<1> QED
    BY <1>1, <1>2, <1>3, <1>4, <1>5, <1>6, <1>7, <1>8 DEF MeterNext

(* The counters of a plan stay within what was inserted and what was asked.  *)
THEOREM PlanTypes == SlotsSpec /\ MeterSpec => []PlanTypeOK
<1>1. MeterInit => MeterInv /\ MeterBounded
  <2> SUFFICES ASSUME MeterInit PROVE MeterInv /\ MeterBounded
    OBVIOUS
  <2>1. month = 0 /\ queries = 0 /\ counted = 0 /\ 0 * MaxQueries = 0
    BY PlanAssumption DEF MeterInit
  <2> QED
    BY <2>1, PlanAssumption DEF MeterInit, MeterInv, MeterBounded, Meterings, Idle
<1>2. ASSUME SlotsInv, SlotsBounded, MeterInv, MeterBounded PROVE PlanTypeOK
  <2>1. taken \in 0..MaxUnits /\ inserted \in 0..MaxUnits
    BY <1>2, Owed, PlanAssumption DEF SlotsInv, SlotsBounded
  <2>2. /\ period \in 0..MaxMonth /\ month \in 0..MaxMonth /\ counted \in 0..MaxQueries
        /\ queries \in Nat
    BY <1>2, PlanAssumption DEF MeterInv, MeterBounded
  <2>3. queries <= (MaxMonth + 1) * MaxQueries
    <3>1. PICK d \in Nat : MaxMonth = month + d
        BY <2>2, PlanAssumption
    <3>2. d * MaxQueries \in Nat /\ month * MaxQueries \in Nat
          /\ (MaxMonth + 1) * MaxQueries = month * MaxQueries + d * MaxQueries + MaxQueries
        BY <2>2, <3>1, PlanAssumption
    <3> DEFINE x == month * MaxQueries  y == d * MaxQueries
    <3> HIDE DEF x, y
    <3>3. queries <= x + counted /\ counted <= MaxQueries /\ x \in Nat /\ y \in Nat /\ counted \in Nat
        BY <1>2, <2>2, <3>2 DEF x, y, MeterBounded
    <3>4. queries <= x + y + MaxQueries
        BY <2>2, <3>3, PlanAssumption
    <3> QED
        BY <3>2, <3>4 DEF x, y
  <2>4. (MaxMonth + 1) * MaxQueries \in Nat
    BY PlanAssumption
  <2>5. queries \in 0..(MaxMonth + 1) * MaxQueries
    BY <2>2, <2>3, <2>4
  <2> QED
    BY <1>2, <2>1, <2>2, <2>5 DEF PlanTypeOK, SlotsInv, SlotsBounded, MeterBounded
<1> QED
    BY <1>1, <1>2, SlotsInitInv, SlotsNextInv, SlotsBoundedStart, SlotsBoundedStep,
       MeterNextInv, MeterBoundedStep, PTL DEF SlotsSpec, MeterSpec

(***************************************************************************)
(* Access to data: what a request that is alone knows of the tables it is    *)
(* about to set.                                                            *)
(***************************************************************************)

(* What a request in flight knows, as long as it is alone *)
ListKnown(q) ==
    editing[q].op = "narrow" /\ editing[q].pc = "linking" /\ editing[q].alone =>
        Named(links \ editing[q].drops) \cup editing[q].adds = editing[q].access
NothingLeft(q) ==
    /\ editing[q].pc = "checking" => editing[q].op = "sync"
    /\ editing[q].pc \in {"inserted", "attaching"} => editing[q].op = "grant"
    /\ editing[q].op = "revoke" => editing[q].access = {} /\ editing[q].adds = {}
    /\ editing[q].op = "revoke" /\ editing[q].pc = "linking" /\ editing[q].alone =>
          links \subseteq editing[q].drops
CrewKnown(q) ==
    /\ editing[q].pc = "crewing" => editing[q].adds \subseteq editing[q].access
    /\ editing[q].pc \in {"dropping", "freeing", "crewing"} => editing[q].op = "crew"
    /\ editing[q].op = "crew" => editing[q].pc \in {"dropping", "freeing", "crewing", "done"}
    /\ editing[q].op = "crew" /\ editing[q].pc # "done" /\ editing[q].alone =>
          crewLinks \subseteq editing[q].drops

Locks(q) == editing[q].op = "narrow" /\ editing[q].pc \in {"reading", "linking"}

(* The lock of a permission row has one holder *)
OneHolder == \A q, r \in Editors :
    Locks(q) /\ Locks(r) /\ editing[q].target = editing[r].target => q = r

DataInv ==
    /\ DataTypeOK /\ OneHolder
    /\ \A q \in Editors : ListKnown(q) /\ NothingLeft(q) /\ CrewKnown(q)

USE SeedAssumption

LEMMA InitData == DataInit => DataInv
<1> SUFFICES ASSUME DataInit PROVE DataInv
    OBVIOUS
<1>1. PICK a \in SUBSET Tables, there \in BOOLEAN :
          /\ grant = [p \in Makers |->
                IF p = Seed /\ there THEN [row |-> "live", full |-> FALSE, access |-> a] ELSE NoGrantRow]
          /\ links = By(Seed, a)
          /\ attached = there
    BY DEF DataInit
<1>2. \A q \in Editors : editing[q] = NotMade
    BY DEF DataInit
<1>3. NotMade \in Edit
    BY DEF NotMade, Edit, Makers
<1>4. DataTypeOK
    <2>1. grant \in [Makers -> GrantRow]
        BY <1>1 DEF GrantRow, NoGrantRow
    <2>2. links \subseteq Rows
        BY <1>1 DEF By, Rows, Makers
    <2> QED
        BY <1>1, <1>3, <2>1, <2>2 DEF DataTypeOK, DataInit
<1>5. OneHolder
    BY <1>2 DEF OneHolder, Locks, NotMade
<1>6. ASSUME NEW q \in Editors PROVE ListKnown(q) /\ NothingLeft(q) /\ CrewKnown(q)
    BY <1>2 DEF ListKnown, NothingLeft, CrewKnown, NotMade
<1> QED
    BY <1>4, <1>5, <1>6 DEF DataInv

(* A step that commits nothing changes one request *)
LEMMA OwnStep ==
    ASSUME DataInv, NEW q \in Editors, NEW e \in Edit,
           UNCHANGED <<grant, attached, links, crewAttached, crewLinks>>,
           editing' = [editing EXCEPT ![q] = e],
           ListKnown(q)', NothingLeft(q)', CrewKnown(q)',
           Locks(q)' => \A r \in Editors \ {q} : Locks(r) => editing[r].target # e.target
    PROVE  DataInv'
<1>1. DataTypeOK'
    BY DEF DataInv, DataTypeOK
<1>2. editing'[q] = e /\ \A r \in Editors \ {q} : editing'[r] = editing[r]
    BY DEF DataInv, DataTypeOK
<1>3. OneHolder'
    BY <1>2 DEF DataInv, OneHolder, Locks
<1>4. ASSUME NEW r \in Editors PROVE (ListKnown(r) /\ NothingLeft(r) /\ CrewKnown(r))'
    <2>1. CASE r = q
        BY <2>1
    <2>2. CASE r # q
        BY <1>2, <2>2 DEF DataInv, ListKnown, NothingLeft, CrewKnown
    <2> QED
        BY <2>1, <2>2
<1> QED
    BY <1>1, <1>3, <1>4 DEF DataInv

(* A commit of q leaves the others as they are, but for alone *)
LEMMA CommitStep ==
    ASSUME DataInv, NEW q \in Editors, DataTypeOK',
           \A r \in Editors \ {q} :
              /\ editing'[r] = [editing[r] EXCEPT !.alone = editing'[r].alone]
              /\ editing'[r].alone => editing[r].alone
              /\ editing[r].op = "crew" /\ editing'[r].alone => crewLinks' = crewLinks
              /\ editing[r].op # "crew" /\ editing'[r].alone /\ links' # links =>
                    /\ editing[r].op = "narrow" /\ Locks(q)
                    /\ editing[r].target = editing[q].target,
           ~Locks(q)', ListKnown(q)', NothingLeft(q)', CrewKnown(q)'
    PROVE  DataInv'
<1>1. \A r \in Editors \ {q} :
          /\ editing'[r].op = editing[r].op /\ editing'[r].pc = editing[r].pc
          /\ editing'[r].target = editing[r].target /\ editing'[r].access = editing[r].access
          /\ editing'[r].adds = editing[r].adds /\ editing'[r].drops = editing[r].drops
    BY DEF DataInv, DataTypeOK, Edit
<1>2. OneHolder'
    BY <1>1 DEF DataInv, OneHolder, Locks
<1>3. ASSUME NEW r \in Editors PROVE (ListKnown(r) /\ NothingLeft(r) /\ CrewKnown(r))'
    <2>1. CASE r = q
        BY <2>1
    <2>2. CASE r # q
        <3>1. Locks(q) => ~(Locks(r) /\ editing[r].target = editing[q].target)
            BY <2>2 DEF DataInv, OneHolder
        <3>2. ListKnown(r)'
            BY <1>1, <2>2, <3>1 DEF DataInv, ListKnown, Locks, Named
        <3>3. NothingLeft(r)'
            <4>1. editing[r].op = "revoke" /\ editing'[r].alone => links' = links
                BY <2>2
            <4>2. NothingLeft(r) /\ (editing'[r].alone => editing[r].alone)
                BY <2>2 DEF DataInv
            <4> QED
                BY <1>1, <2>2, <4>1, <4>2 DEF NothingLeft
        <3>4. CrewKnown(r)'
            <4>1. CrewKnown(r)
                BY DEF DataInv
            <4>2. editing[r].op = "crew" /\ editing'[r].alone =>
                      editing[r].alone /\ crewLinks' = crewLinks
                BY <2>2
            <4> QED
                BY <1>1, <2>2, <4>1, <4>2 DEF CrewKnown
        <3> QED
            BY <3>2, <3>3, <3>4
    <2> QED
        BY <2>1, <2>2
<1> QED
    BY <1>2, <1>3 DEF DataInv

(* Beginning: the request is as Begins puts it *)
LEMMA BeginStep ==
    ASSUME DataInv, NEW q \in Editors,
           NEW op \in {"grant", "narrow", "clear", "revoke", "sync"},
           NEW pc \in {"inserted", "reading", "checking"},
           NEW target \in Makers, NEW full \in BOOLEAN, NEW access \in SUBSET Tables,
           Begins(q, op, pc, target, full, access),
           UNCHANGED <<grant, attached, links, crewAttached, crewLinks>>,
           op = "revoke" => access = {}, pc = "checking" => op = "sync", pc = "inserted" => op = "grant",
           op = "narrow" => ~LockedRow(target)
    PROVE  DataInv'
<1> DEFINE e == [NotMade EXCEPT !.op = op, !.pc = pc, !.target = target, !.full = full, !.access = access]
<1>1. e \in Edit /\ e.op = op /\ e.pc = pc /\ e.target = target /\ e.access = access /\ e.adds = {}
    BY DEF NotMade, Edit
<1>2. editing' = [editing EXCEPT ![q] = e] /\ editing'[q] = e
    BY DEF Begins, DataInv, DataTypeOK
<1>3. ListKnown(q)' /\ NothingLeft(q)' /\ CrewKnown(q)'
    BY <1>1, <1>2 DEF ListKnown, NothingLeft, CrewKnown
<1>4. Locks(q)' => \A r \in Editors \ {q} : Locks(r) => editing[r].target # e.target
    BY <1>1, <1>2 DEF Locks, LockedRow
<1> HIDE DEF e
<1> QED
    BY <1>1, <1>2, <1>3, <1>4, OwnStep

LEMMA Beginnings ==
    ASSUME DataInv, NEW q \in Editors,
           GrantReads(q) \/ NarrowLocks(q) \/ ClearBegins(q) \/ RevokeBegins(q) \/ SyncReads(q)
    PROVE  DataInv'
<1> USE DEF Makers
<1>1. CASE GrantReads(q)
    BY <1>1, BeginStep DEF GrantReads
<1>2. CASE NarrowLocks(q)
    BY <1>2, BeginStep DEF NarrowLocks, LiveRows
<1>3. CASE ClearBegins(q)
    <2>1. PICK p \in Makers : Begins(q, "clear", "reading", p, FALSE, {})
        BY <1>3 DEF ClearBegins, LiveRows
    <2>2. {} \in SUBSET Tables /\ UNCHANGED <<grant, attached, links, crewAttached, crewLinks>>
        BY <1>3 DEF ClearBegins
    <2> QED
        BY <2>1, <2>2, BeginStep
<1>4. CASE RevokeBegins(q)
    <2>1. PICK p \in Makers : Begins(q, "revoke", "reading", p, FALSE, {})
        BY <1>4 DEF RevokeBegins, LiveRows
    <2>2. {} \in SUBSET Tables /\ UNCHANGED <<grant, attached, links, crewAttached, crewLinks>>
        BY <1>4 DEF RevokeBegins
    <2> QED
        BY <2>1, <2>2, BeginStep
<1>5. CASE SyncReads(q)
    <2>1. PICK p \in Makers, access \in SUBSET Tables : Begins(q, "sync", "checking", p, FALSE, access)
        BY <1>5 DEF SyncReads, LiveRows, DataInv, DataTypeOK, GrantRow
    <2> QED
        BY <1>5, <2>1, BeginStep DEF SyncReads
<1> QED
    BY <1>1, <1>2, <1>3, <1>4, <1>5

LEMMA Readings ==
    ASSUME DataInv, NEW q \in Editors,
           TablesRead(q) \/ SyncChecks(q) \/ EditFails(q)
    PROVE  DataInv'
<1>0. editing[q] \in Edit /\ ListKnown(q) /\ NothingLeft(q) /\ CrewKnown(q)
    BY DEF DataInv, DataTypeOK
<1>1. CASE TablesRead(q)
    <2> DEFINE e == [editing[q] EXCEPT !.pc = "linking",
                        !.adds = editing[q].access \ Named(links),
                        !.drops = {r \in links : r.table \notin editing[q].access}]
    <2>1. e \in Edit
        BY <1>0 DEF DataInv, DataTypeOK, Edit
    <2>2. editing' = [editing EXCEPT ![q] = e] /\ editing'[q] = e
        BY <1>1 DEF TablesRead, DataInv, DataTypeOK
    <2>3. /\ e.op = editing[q].op /\ e.pc = "linking" /\ e.target = editing[q].target
          /\ e.access = editing[q].access /\ e.adds = editing[q].access \ Named(links)
          /\ e.drops = {r \in links : r.table \notin editing[q].access}
        BY <1>0 DEF Edit
    <2>4. UNCHANGED <<grant, attached, links, crewAttached, crewLinks>> /\ editing[q].pc = "reading"
        BY <1>1 DEF TablesRead
    <2> HIDE DEF e
    <2>5. ListKnown(q)'
        <3>1. Named(links \ e.drops) = editing[q].access \cap Named(links)
            BY <2>3 DEF Named
        <3> QED
            BY <2>2, <2>3, <2>4, <3>1 DEF ListKnown, Named
    <2>6. NothingLeft(q)' /\ CrewKnown(q)'
        BY <1>0, <2>2, <2>3, <2>4 DEF NothingLeft, CrewKnown
    <2>7. Locks(q)' => \A r \in Editors \ {q} : Locks(r) => editing[r].target # e.target
        BY <2>2, <2>3, <2>4 DEF Locks, DataInv, OneHolder
    <2> QED
        BY <2>1, <2>2, <2>4, <2>5, <2>6, <2>7, OwnStep
<1>2. CASE SyncChecks(q)
    <2> DEFINE e == [editing[q] EXCEPT !.pc = "linking", !.adds = editing[q].access \ Named(links)]
    <2>1. e \in Edit
        BY <1>0 DEF DataInv, DataTypeOK, Edit
    <2>2. editing' = [editing EXCEPT ![q] = e] /\ editing'[q] = e
        BY <1>2 DEF SyncChecks, Set, DataInv, DataTypeOK
    <2>3. e.op = "sync" /\ e.pc = "linking"
        BY <1>0, <1>2 DEF Edit, SyncChecks, NothingLeft
    <2>4. UNCHANGED <<grant, attached, links, crewAttached, crewLinks>>
        BY <1>2 DEF SyncChecks
    <2> HIDE DEF e
    <2>5. ListKnown(q)' /\ NothingLeft(q)' /\ CrewKnown(q)' /\ ~Locks(q)'
        BY <2>2, <2>3 DEF ListKnown, NothingLeft, CrewKnown, Locks
    <2> QED
        BY <2>1, <2>2, <2>4, <2>5, OwnStep
<1>3. CASE EditFails(q)
    <2> DEFINE e == [editing[q] EXCEPT !.pc = "done"]
    <2>1. e \in Edit /\ e.op = editing[q].op /\ e.pc = "done" /\ e.access = editing[q].access
          /\ e.adds = editing[q].adds
        BY <1>0 DEF Edit
    <2>2. editing' = [editing EXCEPT ![q] = e] /\ editing'[q] = e
        BY <1>3 DEF EditFails, DataInv, DataTypeOK
    <2>3. UNCHANGED <<grant, attached, links, crewAttached, crewLinks>>
        BY <1>3 DEF EditFails
    <2> HIDE DEF e
    <2>4. ListKnown(q)' /\ NothingLeft(q)' /\ CrewKnown(q)' /\ ~Locks(q)'
        BY <1>0, <2>1, <2>2, <2>3 DEF ListKnown, NothingLeft, CrewKnown, Locks
    <2> QED
        BY <2>1, <2>2, <2>3, <2>4, OwnStep
<1> QED
    BY <1>1, <1>2, <1>3

LEMMA CrewReadings ==
    ASSUME DataInv, NEW q \in Editors,
           CrewBegins(q) \/ CrewDrops(q) \/ CrewFrees(q)
    PROVE  DataInv'
<1>0. editing[q] \in Edit /\ ListKnown(q) /\ NothingLeft(q) /\ CrewKnown(q)
    BY DEF DataInv, DataTypeOK
<1>1. CASE CrewBegins(q)
    <2>1. PICK full \in BOOLEAN, access \in SUBSET Tables :
              editing' = [editing EXCEPT ![q] =
                  [NotMade EXCEPT !.op = "crew", !.pc = "dropping", !.full = full,
                                  !.access = access, !.drops = crewLinks]]
        BY <1>1 DEF CrewBegins
    <2> DEFINE e == [NotMade EXCEPT !.op = "crew", !.pc = "dropping", !.full = full,
                                    !.access = access, !.drops = crewLinks]
    <2>2. e \in Edit /\ e.op = "crew" /\ e.pc = "dropping" /\ e.drops = crewLinks
        BY DEF NotMade, Edit, DataInv, DataTypeOK, Makers
    <2>3. editing' = [editing EXCEPT ![q] = e] /\ editing'[q] = e
        BY <2>1 DEF DataInv, DataTypeOK
    <2>4. UNCHANGED <<grant, attached, links, crewAttached, crewLinks>>
        BY <1>1 DEF CrewBegins
    <2> HIDE DEF e
    <2>5. ListKnown(q)' /\ NothingLeft(q)' /\ CrewKnown(q)' /\ ~Locks(q)'
        BY <2>2, <2>3, <2>4 DEF ListKnown, NothingLeft, CrewKnown, Locks
    <2> QED
        BY <2>2, <2>3, <2>4, <2>5, OwnStep
<1>2. CASE CrewDrops(q)
    <2> DEFINE e == [editing[q] EXCEPT !.pc = "freeing",
                        !.drops = editing[q].drops \cap crewLinks, !.freed = crewAttached]
    <2>1. /\ e \in Edit /\ e.op = "crew" /\ e.pc = "freeing" /\ e.alone = editing[q].alone
          /\ e.drops = editing[q].drops \cap crewLinks
        BY <1>0, <1>2 DEF CrewDrops, Edit, CrewKnown, DataInv, DataTypeOK
    <2>2. editing' = [editing EXCEPT ![q] = e] /\ editing'[q] = e
        BY <1>2 DEF CrewDrops, DataInv, DataTypeOK
    <2>3. UNCHANGED <<grant, attached, links, crewAttached, crewLinks>> /\ editing[q].pc = "dropping"
        BY <1>2 DEF CrewDrops
    <2> HIDE DEF e
    <2>4. ListKnown(q)' /\ NothingLeft(q)' /\ CrewKnown(q)' /\ ~Locks(q)'
        BY <1>0, <2>1, <2>2, <2>3 DEF ListKnown, NothingLeft, CrewKnown, Locks
    <2> QED
        BY <2>1, <2>2, <2>3, <2>4, OwnStep
<1>3. CASE CrewFrees(q)
    <2> DEFINE e == [editing[q] EXCEPT !.pc = "crewing",
                        !.freed = editing[q].freed \cap crewAttached,
                        !.full = editing[q].full /\ attached,
                        !.adds = {t \in editing[q].access : attached /\ (links = {} \/ t \in Named(links))}]
    <2>1. /\ e \in Edit /\ e.op = "crew" /\ e.pc = "crewing" /\ e.alone = editing[q].alone
          /\ e.drops = editing[q].drops /\ e.access = editing[q].access
          /\ e.adds \subseteq editing[q].access
        BY <1>0, <1>3 DEF CrewFrees, Edit, CrewKnown, DataInv, DataTypeOK
    <2>2. editing' = [editing EXCEPT ![q] = e] /\ editing'[q] = e
        BY <1>3 DEF CrewFrees, DataInv, DataTypeOK
    <2>3. UNCHANGED <<grant, attached, links, crewAttached, crewLinks>> /\ editing[q].pc = "freeing"
        BY <1>3 DEF CrewFrees
    <2> HIDE DEF e
    <2>4. ListKnown(q)' /\ NothingLeft(q)' /\ CrewKnown(q)' /\ ~Locks(q)'
        BY <1>0, <2>1, <2>2, <2>3 DEF ListKnown, NothingLeft, CrewKnown, Locks
    <2> QED
        BY <2>1, <2>2, <2>3, <2>4, OwnStep
<1> QED
    BY <1>1, <1>2, <1>3

(* What AfterCommit and Makes do to the requests *)
LEMMA AfterCommitRows ==
    ASSUME DataInv, NEW q \in Editors, NEW pc \in {"attaching", "reading", "done"},
           editing' = AfterCommit(q, pc)
    PROVE  /\ editing' \in [Editors -> Edit]
           /\ editing'[q] = [editing[q] EXCEPT !.pc = pc]
           /\ \A r \in Editors \ {q} :
                 /\ editing'[r] = [editing[r] EXCEPT !.alone = editing'[r].alone]
                 /\ editing'[r].alone =>
                       /\ editing[r].alone
                       /\ \/ /\ editing[r].op = "narrow" /\ editing[q].op = "narrow"
                             /\ editing[r].target = editing[q].target
                          \/ Crewish(r) # Crewish(q)
<1>1. \A r \in Editors : editing[r] \in Edit
    BY DEF DataInv, DataTypeOK
<1>2. editing'[q] = [editing[q] EXCEPT !.pc = pc] /\ editing'[q] \in Edit
    BY <1>1 DEF AfterCommit, Edit
<1>3. ASSUME NEW r \in Editors \ {q}
      PROVE  /\ editing'[r] \in Edit
             /\ editing'[r] = [editing[r] EXCEPT !.alone = editing'[r].alone]
             /\ editing'[r].alone =>
                   /\ editing[r].alone
                   /\ \/ /\ editing[r].op = "narrow" /\ editing[q].op = "narrow"
                         /\ editing[r].target = editing[q].target
                      \/ Crewish(r) # Crewish(q)
    <2> DEFINE a == /\ editing[r].alone
                    /\ \/ /\ editing[r].op = "narrow" /\ editing[q].op = "narrow"
                          /\ editing[r].target = editing[q].target
                       \/ Crewish(r) # Crewish(q)
    <2>1. editing'[r] = [editing[r] EXCEPT !.alone = a]
        BY DEF AfterCommit, Disturbed
    <2>2. a \in BOOLEAN
        OBVIOUS
    <2> HIDE DEF a
    <2>3. editing'[r].alone = a /\ editing'[r] \in Edit
        BY <1>1, <2>1, <2>2 DEF Edit
    <2> QED
        BY <2>1, <2>3 DEF a
<1>4. editing' = [r \in Editors |-> editing'[r]]
    BY DEF AfterCommit
<1> QED
    BY <1>2, <1>3, <1>4

LEMMA MakesRows ==
    ASSUME DataInv, NEW q \in Editors, NEW op \in {"level", "attach", "link", "unlink"}, Makes(q, op)
    PROVE  /\ editing' \in [Editors -> Edit]
           /\ editing'[q] = [NotMade EXCEPT !.op = op, !.pc = "done"]
           /\ \A r \in Editors \ {q} :
                 /\ editing'[r] = [editing[r] EXCEPT !.alone = editing'[r].alone]
                 /\ editing'[r].alone => editing[r].alone /\ editing[r].op = "crew"
<1>1. \A r \in Editors : editing[r] \in Edit
    BY DEF DataInv, DataTypeOK
<1>2. editing'[q] = [NotMade EXCEPT !.op = op, !.pc = "done"] /\ editing'[q] \in Edit
    BY <1>1 DEF Makes, Edit, NotMade, Makers
<1>3. ASSUME NEW r \in Editors \ {q}
      PROVE  /\ editing'[r] \in Edit
             /\ editing'[r] = [editing[r] EXCEPT !.alone = editing'[r].alone]
             /\ editing'[r].alone => editing[r].alone /\ editing[r].op = "crew"
    <2> DEFINE a == editing[r].alone /\ editing[r].op = "crew"
    <2>1. editing'[r] = [editing[r] EXCEPT !.alone = a]
        BY DEF Makes, Crewish
    <2>2. a \in BOOLEAN
        OBVIOUS
    <2> HIDE DEF a
    <2>3. editing'[r].alone = a /\ editing'[r] \in Edit
        BY <1>1, <2>1, <2>2 DEF Edit
    <2> QED
        BY <2>1, <2>3 DEF a
<1>4. editing' = [r \in Editors |-> editing'[r]]
    BY DEF Makes
<1> QED
    BY <1>2, <1>3, <1>4

LEMMA SingleSteps ==
    ASSUME DataInv, NEW q \in Editors,
           SetLevel(q) \/ Attach(q) \/ LinkTable(q) \/ UnlinkTable(q)
    PROVE  DataInv'
<1>1. PICK op \in {"level", "attach", "link", "unlink"} : Makes(q, op)
    BY DEF SetLevel, Attach, LinkTable, UnlinkTable
<1>2. DataTypeOK'
    <2>1. crewAttached' = crewAttached /\ crewLinks' = crewLinks /\ editing' \in [Editors -> Edit]
        BY <1>1, MakesRows DEF SetLevel, Attach, LinkTable, UnlinkTable
    <2>2. grant' \in [Makers -> GrantRow]
        <3>1. grant' = grant \/ \E p \in Makers : grant' = [grant EXCEPT ![p].full = ~@]
            BY DEF SetLevel, Attach, LinkTable, UnlinkTable, LiveRows
        <3>2. \A p \in Makers : [grant[p] EXCEPT !.full = ~@] \in GrantRow
            BY DEF DataInv, DataTypeOK, GrantRow
        <3> QED
            BY <3>1, <3>2 DEF DataInv, DataTypeOK
    <2>3. links' \subseteq Rows
        BY DEF SetLevel, Attach, LinkTable, UnlinkTable, By, Rows, Makers, DataInv, DataTypeOK
    <2>4. attached' \in BOOLEAN
        BY DEF SetLevel, Attach, LinkTable, UnlinkTable, DataInv, DataTypeOK
    <2> QED
        BY <2>1, <2>2, <2>3, <2>4 DEF DataInv, DataTypeOK
<1>3. editing'[q].op = op /\ editing'[q].pc = "done"
    <2>1. editing'[q] = [NotMade EXCEPT !.op = op, !.pc = "done"]
        BY <1>1, MakesRows
    <2> QED
        BY <2>1 DEF NotMade
<1>4. ListKnown(q)' /\ NothingLeft(q)' /\ CrewKnown(q)' /\ ~Locks(q)'
    BY <1>3 DEF ListKnown, NothingLeft, CrewKnown, Locks
<1>5. crewLinks' = crewLinks
    BY DEF SetLevel, Attach, LinkTable, UnlinkTable
<1>6. \A r \in Editors \ {q} :
          /\ editing'[r] = [editing[r] EXCEPT !.alone = editing'[r].alone]
          /\ editing'[r].alone => editing[r].alone /\ editing[r].op = "crew"
    BY <1>1, MakesRows
<1> QED
    BY <1>2, <1>4, <1>5, <1>6, CommitStep

LEMMA GrantSteps ==
    ASSUME DataInv, NEW q \in Editors, GrantCommitted(q) \/ GrantAttaches(q)
    PROVE  DataInv'
<1>0. /\ editing[q] \in Edit /\ editing[q].op = "grant"
    BY DEF DataInv, DataTypeOK, NothingLeft, GrantCommitted, GrantAttaches
<1>1. PICK pc \in {"attaching", "reading", "done"} : editing' = AfterCommit(q, pc)
    BY DEF GrantCommitted, GrantAttaches
<1>2. editing'[q] = [editing[q] EXCEPT !.pc = pc] /\ editing' \in [Editors -> Edit]
    BY <1>1, AfterCommitRows
<1>3. editing'[q].op = "grant" /\ editing'[q].pc = pc
    BY <1>0, <1>2 DEF Edit
<1>4. links' = links /\ crewLinks' = crewLinks /\ crewAttached' = crewAttached
    BY DEF GrantCommitted, GrantAttaches
<1>5. DataTypeOK'
    <2>1. grant' \in [Makers -> GrantRow]
        <3>1. \/ grant' = grant
              \/ grant' = [grant EXCEPT ![q] =
                    [row |-> "live", full |-> editing[q].full, access |-> editing[q].access]]
            BY DEF GrantCommitted, GrantAttaches
        <3>2. [row |-> "live", full |-> editing[q].full, access |-> editing[q].access] \in GrantRow
            BY <1>0 DEF Edit, GrantRow
        <3> QED
            BY <3>1, <3>2 DEF DataInv, DataTypeOK
    <2>2. attached' \in BOOLEAN
        BY DEF GrantCommitted, GrantAttaches, DataInv, DataTypeOK
    <2> QED
        BY <1>2, <1>4, <2>1, <2>2 DEF DataInv, DataTypeOK
<1>6. ListKnown(q)' /\ NothingLeft(q)' /\ CrewKnown(q)' /\ ~Locks(q)'
    BY <1>3 DEF ListKnown, NothingLeft, CrewKnown, Locks
<1>7. \A r \in Editors \ {q} :
          /\ editing'[r] = [editing[r] EXCEPT !.alone = editing'[r].alone]
          /\ editing'[r].alone => editing[r].alone
    BY <1>1, AfterCommitRows
<1> QED
    BY <1>4, <1>5, <1>6, <1>7, CommitStep

LEMMA LinkSteps ==
    ASSUME DataInv, NEW q \in Editors, LinksCommit(q)
    PROVE  DataInv'
<1>0. editing[q] \in Edit /\ ListKnown(q) /\ NothingLeft(q) /\ CrewKnown(q)
    BY DEF DataInv, DataTypeOK
<1>1. editing' = AfterCommit(q, "done") /\ editing[q].pc = "linking"
    BY DEF LinksCommit
<1>2. editing'[q] = [editing[q] EXCEPT !.pc = "done"] /\ editing' \in [Editors -> Edit]
    BY <1>1, AfterCommitRows
<1>3. editing'[q].op = editing[q].op /\ editing'[q].pc = "done" /\ editing'[q].adds = editing[q].adds
      /\ editing'[q].access = editing[q].access
    BY <1>0, <1>2 DEF Edit
<1>4. crewLinks' = crewLinks /\ crewAttached' = crewAttached /\ attached' = attached
    BY DEF LinksCommit
<1>5. DataTypeOK'
    <2>1. grant' \in [Makers -> GrantRow]
        <3>1. \/ grant' = grant
              \/ grant' = [grant EXCEPT ![editing[q].target].access = editing[q].access]
              \/ grant' = [grant EXCEPT ![editing[q].target].row = "gone"]
            BY DEF LinksCommit
        <3>2. editing[q].target \in Makers /\ editing[q].access \in SUBSET Tables
            BY <1>0 DEF Edit
        <3>3. \A p \in Makers : /\ [grant[p] EXCEPT !.access = editing[q].access] \in GrantRow
                                /\ [grant[p] EXCEPT !.row = "gone"] \in GrantRow
            BY <3>2 DEF DataInv, DataTypeOK, GrantRow
        <3> QED
            BY <3>1, <3>2, <3>3 DEF DataInv, DataTypeOK
    <2>2. links' \subseteq Rows
        BY <1>0 DEF LinksCommit, By, Rows, Makers, Edit, DataInv, DataTypeOK
    <2> QED
        BY <1>2, <1>4, <2>1, <2>2 DEF DataInv, DataTypeOK
<1>6. ListKnown(q)' /\ NothingLeft(q)' /\ CrewKnown(q)' /\ ~Locks(q)'
    BY <1>0, <1>1, <1>3 DEF ListKnown, NothingLeft, CrewKnown, Locks
<1>7. \A r \in Editors \ {q} :
          /\ editing'[r] = [editing[r] EXCEPT !.alone = editing'[r].alone]
          /\ editing'[r].alone =>
                /\ editing[r].alone
                /\ \/ /\ editing[r].op = "narrow" /\ editing[q].op = "narrow"
                      /\ editing[r].target = editing[q].target
                   \/ Crewish(r) # Crewish(q)
    BY <1>1, AfterCommitRows
<1>8. editing[q].op # "crew"
    BY <1>0, <1>1 DEF CrewKnown
<1>9. \A r \in Editors \ {q} :
          editing[r].op # "crew" /\ editing'[r].alone =>
              editing[r].op = "narrow" /\ Locks(q) /\ editing[r].target = editing[q].target
    BY <1>1, <1>7, <1>8 DEF Locks, Crewish
<1> QED
    BY <1>4, <1>5, <1>6, <1>7, <1>9, CommitStep

LEMMA CrewSteps ==
    ASSUME DataInv, NEW q \in Editors, CrewCommits(q)
    PROVE  DataInv'
<1>0. editing[q] \in Edit /\ ListKnown(q) /\ NothingLeft(q) /\ CrewKnown(q)
    BY DEF DataInv, DataTypeOK
<1>1. editing' = AfterCommit(q, "done") /\ editing[q].pc = "crewing" /\ editing[q].op = "crew"
    BY <1>0 DEF CrewCommits, CrewKnown
<1>2. editing'[q] = [editing[q] EXCEPT !.pc = "done"] /\ editing' \in [Editors -> Edit]
    BY <1>1, AfterCommitRows
<1>3. editing'[q].op = "crew" /\ editing'[q].pc = "done"
    BY <1>0, <1>1, <1>2 DEF Edit
<1>4. links' = links /\ grant' = grant /\ attached' = attached
    BY DEF CrewCommits
<1>5. DataTypeOK'
    <2>1. crewLinks' \subseteq Rows
        BY <1>0 DEF CrewCommits, By, Rows, Makers, Edit, DataInv, DataTypeOK
    <2>2. crewAttached' \subseteq Editors /\ \A p, r \in crewAttached' : p = r
        BY DEF CrewCommits, DataInv, DataTypeOK
    <2> QED
        BY <1>2, <1>4, <2>1, <2>2 DEF DataInv, DataTypeOK
<1>6. ListKnown(q)' /\ NothingLeft(q)' /\ CrewKnown(q)' /\ ~Locks(q)'
    BY <1>3 DEF ListKnown, NothingLeft, CrewKnown, Locks
<1>7. \A r \in Editors \ {q} :
          /\ editing'[r] = [editing[r] EXCEPT !.alone = editing'[r].alone]
          /\ editing'[r].alone =>
                /\ editing[r].alone
                /\ \/ /\ editing[r].op = "narrow" /\ editing[q].op = "narrow"
                      /\ editing[r].target = editing[q].target
                   \/ Crewish(r) # Crewish(q)
    BY <1>1, AfterCommitRows
<1>8. \A r \in Editors \ {q} : editing'[r].alone => editing[r].op # "crew"
    BY <1>1, <1>7 DEF Crewish
<1> QED
    BY <1>4, <1>5, <1>6, <1>7, <1>8, CommitStep

LEMMA NextData == DataInv /\ [DataNext]_dVars => DataInv'
<1> SUFFICES ASSUME DataInv, [DataNext]_dVars PROVE DataInv'
    OBVIOUS
<1>1. CASE DataNext
    BY <1>1, Beginnings, Readings, CrewReadings, SingleSteps, GrantSteps, LinkSteps, CrewSteps DEF DataNext
<1>2. CASE UNCHANGED dVars
    <2>1. DataTypeOK' /\ OneHolder'
        BY <1>2 DEF dVars, DataInv, DataTypeOK, OneHolder, Locks
    <2>2. ASSUME NEW q \in Editors PROVE (ListKnown(q) /\ NothingLeft(q) /\ CrewKnown(q))'
        BY <1>2 DEF dVars, DataInv, ListKnown, NothingLeft, CrewKnown
    <2> QED
        BY <2>1, <2>2 DEF DataInv
<1> QED
    BY <1>1, <1>2

LEMMA AlwaysData == DataSpec => []DataInv
    BY InitData, NextData, PTL DEF DataSpec

(* Every reachable state of the permission rows, the links and the requests *)
(* on them is of its type.                                                   *)
THEOREM DataTypes == DataSpec => []DataTypeOK
<1>1. DataInv => DataTypeOK
    BY DEF DataInv
<1> QED
    BY AlwaysData, <1>1, PTL

(* Only a commit of the tables, of the space or of the crew, completes *)
LEMMA WhoCompletes ==
    ASSUME DataInv, NEW q \in Editors, DataNext, Completes(q),
           links' # links \/ grant' # grant \/ crewLinks' # crewLinks
    PROVE  LinksCommit(q) \/ CrewCommits(q)
<1>1. PICK r \in Editors :
          \/ GrantReads(r) \/ GrantCommitted(r) \/ GrantAttaches(r)
          \/ NarrowLocks(r) \/ ClearBegins(r) \/ SetLevel(r) \/ RevokeBegins(r)
          \/ TablesRead(r) \/ LinksCommit(r) \/ SyncReads(r) \/ SyncChecks(r)
          \/ Attach(r) \/ LinkTable(r) \/ UnlinkTable(r)
          \/ CrewBegins(r) \/ CrewDrops(r) \/ CrewFrees(r) \/ CrewCommits(r) \/ EditFails(r)
    BY DEF DataNext
<1>2. editing[q].pc \in {"linking", "crewing"} /\ editing'[q].pc = "done" /\ editing[q] \in Edit
    BY DEF Completes, DataInv, DataTypeOK
<1>3. CASE GrantCommitted(r) \/ LinksCommit(r) \/ CrewCommits(r)
    <2>1. PICK pc \in {"attaching", "reading", "done"} : editing' = AfterCommit(r, pc)
        BY <1>3 DEF GrantCommitted, LinksCommit, CrewCommits
    <2>2. r # q => editing'[q] = [editing[q] EXCEPT !.alone = editing'[q].alone]
        BY <2>1, AfterCommitRows
    <2>3. r = q
        BY <1>2, <2>2 DEF Edit
    <2> QED
        BY <1>2, <1>3, <2>3 DEF GrantCommitted
<1>4. CASE SetLevel(r) \/ LinkTable(r) \/ UnlinkTable(r)
    <2>1. PICK op \in {"level", "attach", "link", "unlink"} : Makes(r, op)
        BY <1>4 DEF SetLevel, LinkTable, UnlinkTable
    <2>2. ASSUME r # q PROVE editing'[q] = [editing[q] EXCEPT !.alone = editing'[q].alone]
        <3>1. q \in Editors \ {r}
            BY <2>2
        <3> QED
            BY <2>1, <3>1, MakesRows
    <2>3. r = q
        BY <1>2, <2>2 DEF Edit
    <2> QED
        BY <1>2, <2>1, <2>3 DEF Makes, NotMade
<1>5. ~(\/ GrantReads(r) \/ GrantAttaches(r) \/ NarrowLocks(r) \/ ClearBegins(r) \/ RevokeBegins(r)
        \/ TablesRead(r) \/ SyncReads(r) \/ SyncChecks(r) \/ Attach(r)
        \/ CrewBegins(r) \/ CrewDrops(r) \/ CrewFrees(r) \/ EditFails(r))
    BY DEF GrantReads, GrantAttaches, NarrowLocks, ClearBegins, RevokeBegins, TablesRead, SyncReads,
           SyncChecks, Attach, CrewBegins, CrewDrops, CrewFrees, EditFails
<1> QED
    BY <1>1, <1>3, <1>4, <1>5

LEMMA NamedBy ==
    ASSUME NEW q, NEW rows, NEW names
    PROVE  Named(rows \cup By(q, names)) = Named(rows) \cup names
<1>1. Named(rows \cup By(q, names)) = Named(rows) \cup Named(By(q, names))
    BY DEF Named
<1>2. \A t \in names : [table |-> t, by |-> q].table = t
    OBVIOUS
<1>3. Named(By(q, names)) = names
    BY <1>2 DEF Named, By
<1> QED
    BY <1>1, <1>3

LEMMA SetNext == DataInv /\ [DataNext]_dVars => AccessIsSet
<1> SUFFICES ASSUME DataInv, [DataNext]_dVars, NEW q \in Editors, Completes(q),
                    links' # links \/ grant' # grant \/ crewLinks' # crewLinks
             PROVE  /\ editing[q].op = "narrow" => Named(links') = grant'[editing[q].target].access
                    /\ editing[q].op = "revoke" /\ LiveRows' = {} => SpaceReads' = {{}}
                    /\ editing[q].op = "crew" => Named(crewLinks') \subseteq editing[q].access
    BY DEF AccessIsSet, CrewReads
<1>0. /\ editing[q] \in Edit /\ editing[q].alone /\ ListKnown(q) /\ NothingLeft(q) /\ CrewKnown(q)
      /\ grant \in [Makers -> GrantRow]
    BY DEF DataInv, DataTypeOK, Completes
<1>1. DataNext
    BY DEF dVars
<1>2. CASE LinksCommit(q)
    <2>1. /\ editing[q].pc = "linking" /\ editing[q].op # "crew"
          /\ links' = (links \ editing[q].drops) \cup By(q, editing[q].adds)
        BY <1>0, <1>2 DEF LinksCommit, CrewKnown
    <2>2. Named(links') = Named(links \ editing[q].drops) \cup editing[q].adds
        BY <2>1, NamedBy
    <2>3. ASSUME editing[q].op = "narrow"
          PROVE  Named(links') = grant'[editing[q].target].access
        <3>1. grant' = [grant EXCEPT ![editing[q].target].access = editing[q].access]
            BY <1>2, <2>3 DEF LinksCommit
        <3>2. editing[q].target \in Makers
            BY <1>0 DEF Edit
        <3>3. grant'[editing[q].target].access = editing[q].access
            BY <1>0, <3>1, <3>2 DEF GrantRow
        <3> QED
            BY <1>0, <2>1, <2>2, <2>3, <3>3 DEF ListKnown
    <2>4. ASSUME editing[q].op = "revoke", LiveRows' = {}
          PROVE  SpaceReads' = {{}}
        <3>1. Named(links') = {}
            BY <1>0, <2>1, <2>4 DEF NothingLeft, By, Named
        <3> QED
            BY <2>4, <3>1 DEF SpaceReads
    <2> QED
        BY <2>1, <2>3, <2>4
<1>3. CASE CrewCommits(q)
    <2>1. /\ editing[q].op = "crew" /\ crewLinks \subseteq editing[q].drops
          /\ editing[q].adds \subseteq editing[q].access
          /\ crewLinks' = (crewLinks \ editing[q].drops) \cup By(q, editing[q].adds)
        BY <1>0, <1>3 DEF CrewCommits, CrewKnown
    <2>2. Named(crewLinks') \subseteq editing[q].adds
        BY <2>1 DEF Named, By
    <2> QED
        BY <2>1, <2>2
<1> QED
    BY <1>1, <1>2, <1>3, WhoCompletes

(* However the requests on a connection's permissions overlap, one that no  *)
(* other kind was committed beside leaves what it was asked for: the list    *)
(* of tables (permission_service.py:208), nothing after a revocation (:243), *)
(* and in a crew no table that was not asked for (crew_service.py:244).      *)
THEOREM AccessIsKept == DataSpec => AccessKept
    BY AlwaysData, SetNext, PTL DEF DataSpec, AccessKept

=============================================================================
