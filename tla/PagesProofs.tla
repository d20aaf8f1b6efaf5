---------------------------- MODULE PagesProofs ----------------------------
(***************************************************************************)
(* Proofs about Pages: for every collection, filter and page size, and for  *)
(* any number of writes in between, what a token promises of the pages that *)
(* came before it and of those that come after it.                          *)
(***************************************************************************)
EXTENDS Pages, FiniteSetTheorems, TLAPS

Tokens == [given : BOOLEAN, filter : SUBSET Values, last : Ids \cup {ZeroId}]

Calls ==
    [pc : {"idle", "query", "find", "next", "panic"}, filter : SUBSET Values, size : Int,
     token : Tokens, total : Nat, last : Ids \cup {ZeroId}]

Walks ==
    [filter : SUBSET Values, token : Tokens, listing : BOOLEAN, complete : BOOLEAN,
     seen : SUBSET Ids, steady : SUBSET Ids, twice : SUBSET Ids, stray : SUBSET Ids,
     upset : SUBSET {"came", "encryption"}]

Typed == DOMAIN docs \subseteq Ids /\ call \in Calls /\ walk \in Walks

Reading == call.pc \in {"query", "find", "next"}

(* The calls of a walk are about one filter: that of its first call goes    *)
(* into the first token, and another is not accepted.                       *)
SameRequest ==
    /\ Reading => call.token = walk.token
    /\ walk.token.given => walk.token.filter = walk.filter /\ walk.token.last # ZeroId
    /\ (call.pc \in {"find", "next"} \/ (call.pc = "query" /\ ~call.token.given))
           => call.filter = walk.filter
    /\ walk.steady \subseteq Selected(walk.filter)

(* Without a token a call is the first of its walk.                         *)
FromTheStart ==
    /\ Reading \/ walk.token.given => ~walk.complete
    /\ call.pc \in {"query", "find"} /\ ~call.token.given => walk.seen = {}

(* The document that the next page begins after.                            *)
Position == IF call.pc = "next" THEN call.last ELSE walk.token.last

Underway == (call.pc = "next" \/ walk.token.given) /\ Position # ZeroId

(* It was shown and, in the order of ids, nothing behind it was; what was   *)
(* not shown of the steady documents is behind all that was.                *)
Forward ==
    /\ Underway => Position \in walk.seen
    /\ sorted => /\ walk.twice = {}
                 /\ Underway => \A i \in walk.seen : i <= Position
                 /\ \A i \in walk.steady \ walk.seen, j \in walk.seen : j < i

(* Until a document comes to match after it, the count is large enough for  *)
(* a token to be given; a walk that ends so has shown all steady documents. *)
Remaining ==
    /\ (call.pc = "find" /\ "came" \notin walk.upset)
           => Cardinality(Selected(call.filter)) <= call.total
    /\ (sorted /\ walk.complete /\ {"total", "filter", "json"} \subseteq repaired
            /\ walk.upset = {})
           => walk.steady \subseteq walk.seen

IInv == Typed /\ SameRequest /\ FromTheStart /\ ListedMatch /\ Forward /\ Remaining

LEMMA Beginnings ==
    /\ NoToken \in Tokens
    /\ NoCall \in Calls
    /\ Over \in Walks
  BY DEF NoToken, NoCall, Over, Tokens, Calls, Walks

LEMMA IdsAreNumbers == \A i \in Ids \cup {ZeroId} : i \in Nat
  BY PagesAssumption DEF ZeroId

LEMMA InitSound == Init => IInv
  <1> SUFFICES ASSUME Init PROVE IInv
    OBVIOUS
  <1>1. Typed
    BY Beginnings DEF Init, Typed
  <1>2. SameRequest /\ FromTheStart /\ ListedMatch /\ Forward /\ Remaining
    BY DEF Init, NoCall, Over, NoToken, SameRequest, FromTheStart, ListedMatch, Forward,
           Remaining, Underway, Reading
  <1> QED
    BY <1>1, <1>2 DEF IInv

LEMMA Counting ==
    ASSUME Typed
    PROVE  \A filter : /\ Selected(filter) \subseteq Ids
                       /\ IsFiniteSet(Selected(filter))
                       /\ Cardinality(Selected(filter)) \in Nat
  BY PagesAssumption, FS_Subset, FS_CardinalityType DEF Typed, Selected, Matching

-----------------------------------------------------------------------------
LEMMA BeginStep ==
    ASSUME IInv, Begin
    PROVE  IInv'
  <1>1. PICK f \in Filters, s \in Sizes :
            /\ call' = [NoCall EXCEPT !.pc = "query", !.filter = f, !.size = s]
            /\ walk' = [Over EXCEPT !.filter = f, !.listing = TRUE, !.steady = Selected(f)]
    BY DEF Begin
  <1>2. /\ call'.pc = "query" /\ call'.filter = f /\ call'.token = NoToken
        /\ walk'.filter = f /\ walk'.token = NoToken /\ ~walk'.complete /\ walk'.seen = {}
        /\ walk'.steady = Selected(f) /\ walk'.twice = {} /\ walk'.stray = {}
        /\ UNCHANGED docs
    BY <1>1 DEF Begin, NoCall, Over
  <1>3. Typed'
    <2>1. f \in SUBSET Values /\ s \in Int /\ Selected(f) \in SUBSET Ids
      BY PagesAssumption, Counting DEF IInv
    <2>2. call' \in Calls
      BY <1>1, <2>1, Beginnings DEF Calls
    <2>3. walk' \in Walks
      BY <1>1, <2>1, Beginnings DEF Walks
    <2> QED
      BY <1>2, <2>2, <2>3 DEF IInv, Typed
  <1>4. SameRequest' /\ FromTheStart' /\ ListedMatch'
    BY <1>2 DEF NoToken, Selected, SameRequest, FromTheStart, ListedMatch, Reading
  <1>5. Forward' /\ Remaining'
    BY <1>2 DEF NoToken, Forward, Remaining, Underway
  <1> QED
    BY <1>3, <1>4, <1>5 DEF IInv

LEMMA ContinueStep ==
    ASSUME IInv, Continue
    PROVE  IInv'
  <1>1. PICK f \in Filters, s \in Sizes :
            call' = [NoCall EXCEPT !.pc = "query", !.filter = f, !.size = s,
                                   !.token = walk.token]
    BY DEF Continue
  <1>2. /\ call'.pc = "query" /\ call'.token = walk.token
        /\ call.pc = "idle" /\ walk.token.given
        /\ UNCHANGED <<docs, walk, repaired, sorted>>
    BY <1>1 DEF Continue, NoCall
  <1>3. Typed'
    <2>1. f \in SUBSET Values /\ s \in Int /\ walk.token \in Tokens
      BY PagesAssumption DEF IInv, Typed, Walks
    <2>2. call' \in Calls
      BY <1>1, <2>1, Beginnings DEF Calls
    <2> QED
      BY <1>2, <2>2 DEF IInv, Typed
  <1>4. SameRequest' /\ FromTheStart' /\ ListedMatch'
    BY <1>2 DEF IInv, SameRequest, FromTheStart, ListedMatch, Reading, Selected
  <1>5. Forward' /\ Remaining'
    BY <1>2 DEF IInv, Forward, Remaining, Underway, Position
  <1> QED
    BY <1>3, <1>4, <1>5 DEF IInv

(* A call ends and the walk with it, or the process does.                   *)
LEMMA FailStep ==
    ASSUME IInv, Fail
    PROVE  IInv'
  <1>1. call' = NoCall /\ walk' = Over /\ UNCHANGED docs
    BY DEF Fail
  <1>2. Typed'
    BY <1>1, Beginnings DEF IInv, Typed
  <1>3. SameRequest' /\ FromTheStart' /\ ListedMatch' /\ Forward' /\ Remaining'
    BY <1>1 DEF NoCall, Over, NoToken, SameRequest, FromTheStart, ListedMatch, Forward,
                Remaining, Underway, Reading
  <1> QED
    BY <1>2, <1>3 DEF IInv

LEMMA PanicStep ==
    ASSUME IInv, FindPanics
    PROVE  IInv'
  <1>1. /\ call'.pc = "panic" /\ call' \in Calls /\ call.pc = "find"
        /\ UNCHANGED <<docs, walk, repaired, sorted>>
    BY Beginnings DEF FindPanics, NoCall, Calls
  <1>2. Typed' /\ SameRequest' /\ FromTheStart' /\ ListedMatch'
    BY <1>1 DEF IInv, Typed, SameRequest, FromTheStart, ListedMatch, Reading, Selected
  <1>3. Forward' /\ Remaining'
    BY <1>1 DEF IInv, Forward, Remaining, Underway, Position
  <1> QED
    BY <1>2, <1>3 DEF IInv

(* Only the filter of the token is accepted.                                *)
LEMMA QueryStep ==
    ASSUME IInv, Query
    PROVE  IInv'
  <1>1. /\ call.pc = "query" /\ call \in Calls
        /\ call' = [call EXCEPT !.pc = "find", !.total = Cardinality(Selected(call.filter))]
        /\ UNCHANGED <<docs, walk, repaired, sorted>>
    BY DEF Query, IInv, Typed
  <1>2. /\ call'.pc = "find" /\ call'.filter = call.filter
        /\ call'.token = call.token /\ call'.total = Cardinality(Selected(call.filter))
    BY <1>1 DEF Calls
  <1>3. Typed'
    <2>1. call' \in Calls
      BY <1>1, Counting DEF IInv, Typed, Calls
    <2> QED
      BY <1>1, <2>1 DEF IInv, Typed
  <1>4. call.token.given => call.filter = call.token.filter
    BY DEF Query, Accepts
  <1>5. SameRequest' /\ FromTheStart' /\ ListedMatch'
    BY <1>1, <1>2, <1>4
    DEF IInv, SameRequest, FromTheStart, ListedMatch, Reading, Selected
  <1>6. Forward'
    BY <1>1, <1>2 DEF IInv, Forward, Underway, Position
  <1>7. Remaining'
    <2>1. Selected(call.filter)' = Selected(call.filter)
      BY <1>1, <1>2 DEF Selected, Matching
    <2>2. Cardinality(Selected(call.filter)) \in Nat
      BY Counting DEF IInv
    <2>3. (Cardinality(Selected(call.filter)) <= call.total)'
      BY <1>2, <2>1, <2>2
    <2> QED
      BY <1>1, <1>2, <2>3 DEF IInv, Remaining
  <1> QED
    BY <1>3, <1>5, <1>6, <1>7 DEF IInv

-----------------------------------------------------------------------------
(* What the query of a page gets.                                           *)
Found == Queried(call.filter, call.token)

Counted == IF "total" \in repaired THEN call.total ELSE 0

(* A token is given, or sought, if the page is full and the count larger.   *)
GoesOn(page) == call.size = Cardinality(page) /\ Counted > Cardinality(page)

FoundPage(page, last) ==
    /\ page \subseteq Found /\ last \in Found \cup {ZeroId}
    /\ Page(Found, page, last)
    /\ walk'.seen = walk.seen \cup page
    /\ walk'.twice = walk.twice \cup (walk.seen \cap page)
    /\ walk'.stray = walk.stray \cup (page \ Selected(call.filter))
    /\ walk'.steady = walk.steady /\ walk'.filter = walk.filter /\ walk'.upset = walk.upset
    /\ walk' \in Walks /\ call' \in Calls
    /\ \/ /\ GoesOn(page)
          /\ call'.pc = "next" /\ call'.last = last /\ call'.token = call.token
          /\ call'.filter = call.filter
          /\ walk'.token = walk.token /\ walk'.complete = walk.complete
       \/ /\ ~GoesOn(page)
          /\ call' = NoCall /\ walk'.token = NoToken /\ walk'.complete

HasPage == \E page, last : FoundPage(page, last)

LEMMA FoundFacts ==
    ASSUME IInv, call.pc = "find"
    PROVE  /\ Found \subseteq Selected(call.filter) /\ Found \subseteq Ids
           /\ IsFiniteSet(Found)
           /\ Cardinality(Found) <= Cardinality(Selected(call.filter))
           /\ \A page \in SUBSET Found :
                 /\ IsFiniteSet(page)
                 /\ Cardinality(page) \in Nat
                 /\ Cardinality(page) = Cardinality(Found) => page = Found
  <1>1. Found \subseteq Selected(call.filter)
    BY DEF Found, Queried, SelectedAfter, IInv, SameRequest, Reading
  <1>2. Found \subseteq Ids /\ IsFiniteSet(Found)
    BY <1>1, Counting, FS_Subset DEF IInv
  <1>3. Cardinality(Found) <= Cardinality(Selected(call.filter))
    BY <1>1, Counting, FS_Subset DEF IInv
  <1>4. ASSUME NEW page \in SUBSET Found
        PROVE  /\ IsFiniteSet(page)
               /\ Cardinality(page) \in Nat
               /\ Cardinality(page) = Cardinality(Found) => page = Found
    BY <1>2, FS_Subset, FS_CardinalityType
  <1> QED
    BY <1>1, <1>2, <1>3, <1>4

LEMMA FindShows ==
    ASSUME IInv, Find
    PROVE  HasPage /\ call.pc = "find" /\ UNCHANGED <<docs, repaired, sorted>>
  <1>1. call.pc = "find" /\ UNCHANGED <<docs, repaired, sorted>>
    BY DEF Find
  <1>2. PICK page \in SUBSET Found, last \in Found \cup {ZeroId} :
            LET shown == [walk EXCEPT !.seen  = @ \cup page,
                                      !.twice = @ \cup (walk.seen \cap page),
                                      !.stray = @ \cup (page \ Selected(call.filter))]
            IN  /\ Page(Found, page, last)
                /\ IF GoesOn(page)
                   THEN /\ call' = [call EXCEPT !.pc = "next", !.last = last]
                        /\ walk' = shown
                   ELSE /\ call' = NoCall
                        /\ walk' = Shown(shown, NoToken)
    BY DEF Find, Found, GoesOn, Counted
  <1>3. page \subseteq Ids /\ last \in Ids \cup {ZeroId} /\ call \in Calls /\ walk \in Walks
    BY <1>1, FoundFacts DEF IInv, Typed
  <1> DEFINE shown == [walk EXCEPT !.seen  = @ \cup page,
                                   !.twice = @ \cup (walk.seen \cap page),
                                   !.stray = @ \cup (page \ Selected(call.filter))]
  <1>4. /\ shown \in Walks /\ shown.seen = walk.seen \cup page
        /\ shown.twice = walk.twice \cup (walk.seen \cap page)
        /\ shown.stray = walk.stray \cup (page \ Selected(call.filter))
        /\ shown.steady = walk.steady /\ shown.filter = walk.filter
        /\ shown.upset = walk.upset /\ shown.token = walk.token
        /\ shown.complete = walk.complete
    BY <1>3 DEF Walks
  <1>5. CASE GoesOn(page)
    <2>1. call' = [call EXCEPT !.pc = "next", !.last = last] /\ walk' = shown
      BY <1>2, <1>5
    <2>2. /\ call' \in Calls /\ call'.pc = "next" /\ call'.last = last
          /\ call'.token = call.token /\ call'.filter = call.filter
      BY <1>3, <2>1 DEF Calls
    <2> HIDE DEF shown
    <2> QED
      BY <1>1, <1>2, <1>4, <1>5, <2>1, <2>2 DEF HasPage, FoundPage
  <1>6. CASE ~GoesOn(page)
    <2>1. call' = NoCall /\ walk' = Shown(shown, NoToken)
      BY <1>2, <1>6
    <2> HIDE DEF shown
    <2>2. /\ walk' \in Walks /\ walk'.token = NoToken /\ walk'.complete
          /\ walk'.seen = shown.seen /\ walk'.twice = shown.twice /\ walk'.stray = shown.stray
          /\ walk'.steady = shown.steady /\ walk'.filter = shown.filter
          /\ walk'.upset = shown.upset
      BY <1>4, <2>1, Beginnings DEF Shown, Walks, NoToken
    <2> QED
      BY <1>1, <1>2, <1>4, <1>6, <2>1, <2>2, Beginnings DEF HasPage, FoundPage
  <1> QED
    BY <1>1, <1>5, <1>6

(* What was not shown of the steady documents is found, with a token that   *)
(* JSON does not spoil or without one.                                      *)
LEMMA StillFound ==
    ASSUME IInv, call.pc = "find", sorted, call.token.given => "json" \in repaired
    PROVE  walk.steady \ walk.seen \subseteq Found
  <1>1. walk.steady \subseteq Selected(call.filter)
    BY DEF IInv, SameRequest
  <1>2. CASE ~call.token.given
    BY <1>1, <1>2 DEF Found, Queried
  <1>3. CASE call.token.given
    <2>1. call.token = walk.token /\ call.token.filter = call.filter
      BY <1>3 DEF IInv, SameRequest, Reading
    <2>2. Underway /\ Position = call.token.last
      BY <1>3, <2>1 DEF IInv, SameRequest, Underway, Position
    <2>3. \A i \in walk.steady \ walk.seen : call.token.last < i
      BY <2>2 DEF IInv, Forward
    <2> QED
      BY <1>1, <1>3, <2>1, <2>3 DEF Found, Queried, SelectedAfter, Beyond
  <1> QED
    BY <1>2, <1>3

(* A page begins behind what was shown, and leaves nothing out before its   *)
(* end.                                                                     *)
LEMMA FindGoesForward ==
    ASSUME IInv, call.pc = "find", NEW page, NEW last, FoundPage(page, last),
           UNCHANGED <<docs, repaired, sorted>>
    PROVE  Forward'
  <1>1. /\ page \subseteq Found /\ Page(Found, page, last)
        /\ walk'.seen = walk.seen \cup page
        /\ walk'.twice = walk.twice \cup (walk.seen \cap page)
        /\ walk'.steady = walk.steady
    BY DEF FoundPage
  <1>2. Underway' => Position' = last /\ last # ZeroId
    BY DEF FoundPage, Underway, Position, NoToken, NoCall
  <1>3. last # ZeroId => last \in page
    BY <1>1 DEF Page
  <1>4. Underway' => Position' \in walk'.seen
    BY <1>1, <1>2, <1>3
  <1>5. page \subseteq Ids /\ walk.seen \subseteq Ids /\ walk.steady \subseteq Ids
    BY <1>1, FoundFacts DEF IInv, Typed, Walks
  <1>6. ASSUME sorted, NEW j \in walk.seen
        PROVE  \A i \in page : j < i
    <2>1. CASE ~call.token.given
      BY <1>6, <2>1 DEF IInv, FromTheStart
    <2>2. CASE call.token.given
      <3>1. Underway /\ Position = call.token.last
        BY <2>2 DEF IInv, SameRequest, Reading, Underway, Position
      <3>2. j <= call.token.last
        BY <1>6, <3>1 DEF IInv, Forward
      <3>3. \A i \in page : call.token.last < i
        BY <1>1, <2>2 DEF Found, Queried, SelectedAfter, Beyond
      <3>4. call.token.last \in Ids \cup {ZeroId}
        BY DEF IInv, Typed, Calls, Tokens
      <3> QED
        BY <1>5, <1>6, <3>2, <3>3, <3>4, IdsAreNumbers
    <2> QED
      BY <2>1, <2>2
  <1>7. ASSUME sorted
        PROVE  walk'.twice = {}
    <2>1. walk.twice = {}
      BY <1>7 DEF IInv, Forward
    <2>2. walk.seen \cap page = {}
      <3>1. \A i \in page : i \in Nat
        BY <1>5, IdsAreNumbers
      <3> QED
        BY <1>6, <1>7, <3>1
    <2> QED
      BY <1>1, <2>1, <2>2
  <1>8. ASSUME sorted, Underway', NEW i \in walk'.seen
        PROVE  i <= Position'
    <2>1. last \in page /\ Position' = last /\ \A k \in page : k <= last
      BY <1>1, <1>2, <1>3, <1>8 DEF Page
    <2>2. CASE i \in page
      BY <2>1, <2>2
    <2>3. CASE i \in walk.seen
      BY <1>5, <1>6, <1>8, <2>1, <2>3, IdsAreNumbers
    <2> QED
      BY <1>1, <1>8, <2>2, <2>3
  <1>9. ASSUME sorted, NEW i \in walk'.steady \ walk'.seen, NEW j \in walk'.seen
        PROVE  j < i
    <2>1. i \in walk.steady \ walk.seen /\ i \notin page
      BY <1>1, <1>9
    <2>2. CASE j \in walk.seen
      BY <1>9, <2>1, <2>2 DEF IInv, Forward
    <2>3. CASE j \in page
      <3>1. call.token.given => "json" \in repaired
        BY <1>1, <2>3 DEF Found, Queried
      <3>2. i \in Found
        BY <1>9, <2>1, <3>1, StillFound
      <3> QED
        BY <1>1, <1>9, <2>1, <2>3, <3>2 DEF Page
    <2> QED
      BY <1>1, <1>9, <2>2, <2>3
  <1>10. sorted' = sorted
    OBVIOUS
  <1> QED
    BY <1>4, <1>7, <1>8, <1>9, <1>10 DEF Forward

(* A listing that ends with a page has that page hold all that is left.     *)
LEMMA FindLeavesRest ==
    ASSUME IInv, call.pc = "find", NEW page, NEW last, FoundPage(page, last),
           UNCHANGED <<docs, repaired, sorted>>
    PROVE  Remaining'
  <1>1. call'.pc # "find"
    BY DEF FoundPage, NoCall
  <1>2. ASSUME sorted, walk'.complete, {"total", "filter", "json"} \subseteq repaired,
               walk'.upset = {}
        PROVE  walk'.steady \subseteq walk'.seen
    <2>1. ~walk.complete
      BY DEF IInv, FromTheStart, Reading
    <2>2. /\ ~GoesOn(page) /\ Page(Found, page, last) /\ page \subseteq Found
          /\ walk'.seen = walk.seen \cup page /\ walk'.steady = walk.steady
          /\ walk.upset = {}
      BY <1>2, <2>1 DEF FoundPage
    <2>3. /\ Cardinality(Found) <= Cardinality(Selected(call.filter))
          /\ Cardinality(Found) \in Nat /\ Cardinality(page) \in Nat
          /\ Cardinality(page) = Cardinality(Found) => page = Found
      BY <2>2, FoundFacts
    <2>4. Cardinality(Selected(call.filter)) <= call.total /\ Counted = call.total
      BY <1>2, <2>2 DEF IInv, Remaining, Counted
    <2>5. call.size \in Int /\ call.total \in Nat /\ Cardinality(Selected(call.filter)) \in Nat
      BY Counting DEF IInv, Typed, Calls
    <2>6. page = Found
      <3>1. Cardinality(page) = IF call.size <= 0 \/ Cardinality(Found) < call.size
                                THEN Cardinality(Found) ELSE call.size
        BY <2>2 DEF Page
      <3>2. CASE Cardinality(page) = Cardinality(Found)
        BY <2>3, <3>2
      <3>3. CASE Cardinality(page) = call.size
        <4>1. ~(Counted > Cardinality(page))
          BY <2>2, <3>3 DEF GoesOn
        <4>2. Cardinality(Found) <= Cardinality(page)
          BY <2>3, <2>4, <2>5, <4>1
        <4> QED
          BY <2>3, <2>5, <3>1, <4>2
      <3> QED
        BY <3>1, <3>2, <3>3
    <2>7. walk.steady \ walk.seen \subseteq Found
      BY <1>2, StillFound
    <2> QED
      BY <2>2, <2>6, <2>7
  <1> QED
    BY <1>1, <1>2 DEF Remaining

LEMMA FindStep ==
    ASSUME IInv, Find
    PROVE  IInv'
  <1>1. HasPage /\ call.pc = "find" /\ UNCHANGED <<docs, repaired, sorted>>
    BY FindShows
  <1>2. PICK page, last : FoundPage(page, last)
    BY <1>1 DEF HasPage
  <1>3. Typed'
    BY <1>1, <1>2 DEF IInv, Typed, FoundPage
  <1>4. ListedMatch'
    BY <1>1, <1>2, FoundFacts DEF IInv, ListedMatch, FoundPage
  <1>5. SameRequest' /\ FromTheStart'
    <2>1. /\ walk'.steady = walk.steady /\ walk'.filter = walk.filter
          /\ \/ /\ call'.pc = "next" /\ call'.token = call.token /\ call'.filter = call.filter
                /\ walk'.token = walk.token /\ walk'.complete = walk.complete
             \/ call' = NoCall /\ walk'.token = NoToken
      BY <1>2 DEF FoundPage
    <2>2. walk'.steady \subseteq Selected(walk.filter)'
      BY <1>1, <2>1 DEF IInv, SameRequest, Selected, Matching
    <2>3. CASE call'.pc = "next" /\ call'.token = call.token /\ call'.filter = call.filter
               /\ walk'.token = walk.token /\ walk'.complete = walk.complete
      BY <1>1, <2>1, <2>2, <2>3 DEF IInv, SameRequest, FromTheStart, Reading
    <2>4. CASE call' = NoCall /\ walk'.token = NoToken
      BY <2>2, <2>4 DEF NoCall, NoToken, SameRequest, FromTheStart, Reading
    <2> QED
      BY <2>1, <2>3, <2>4
  <1>6. Forward' /\ Remaining'
    BY <1>1, <1>2, FindGoesForward, FindLeavesRest
  <1> QED
    BY <1>3, <1>4, <1>5, <1>6 DEF IInv

-----------------------------------------------------------------------------
(* What both outcomes of NextPageToken leave as it is.                      *)
TokenGiven(token) ==
    /\ walk' \in Walks /\ call' = NoCall
    /\ walk'.token = token /\ walk'.complete = ~token.given
    /\ walk'.filter = walk.filter /\ walk'.steady = walk.steady /\ walk'.seen = walk.seen
    /\ walk'.twice = walk.twice /\ walk'.stray = walk.stray
    /\ UNCHANGED <<docs, repaired, sorted>>

LEMMA TokenGivenFacts ==
    ASSUME IInv, call.pc = "next", NEW token \in Tokens, TokenGiven(token),
           token.given => /\ token.filter = call.filter
                          /\ token.last = call.last /\ token.last # ZeroId
    PROVE  Typed' /\ SameRequest' /\ FromTheStart' /\ ListedMatch' /\ Forward'
  <1>1. /\ call'.pc = "idle" /\ call' \in Calls
        /\ walk'.token = token /\ walk'.complete = ~token.given
        /\ walk'.filter = walk.filter /\ walk'.steady = walk.steady /\ walk'.seen = walk.seen
        /\ walk'.twice = walk.twice /\ walk'.stray = walk.stray
        /\ walk' \in Walks
        /\ UNCHANGED <<docs, sorted>>
    BY Beginnings DEF TokenGiven, NoCall
  <1>2. Typed'
    BY <1>1 DEF IInv, Typed
  <1>3. token \in Tokens /\ token.given \in BOOLEAN
    BY DEF Tokens
  <1>4. SameRequest' /\ FromTheStart' /\ ListedMatch'
    BY <1>1, <1>3 DEF IInv, SameRequest, FromTheStart, ListedMatch, Reading, Selected
  <1>5. Underway' => Underway /\ Position' = Position
    BY <1>1 DEF Underway, Position
  <1>6. Forward'
    BY <1>1, <1>5 DEF IInv, Forward
  <1> QED
    BY <1>2, <1>4, <1>6

(* Nothing comes after the last document of the page.                       *)
LEMMA NothingNextStep ==
    ASSUME IInv, NothingNext
    PROVE  IInv'
  <1>1. /\ call.pc = "next"
        /\ TokenGiven(NoToken)
        /\ walk'.upset = walk.upset
    BY Beginnings DEF NothingNext, TokenGiven, Shown, NoToken, IInv, Typed, Walks
  <1>2. Typed' /\ SameRequest' /\ FromTheStart' /\ ListedMatch' /\ Forward'
    <2>1. ~NoToken.given /\ NoToken \in Tokens
      BY Beginnings DEF NoToken
    <2> QED
      BY <1>1, <2>1, TokenGivenFacts
  <1>3. Remaining'
    <2>1. ASSUME sorted, "filter" \in repaired
          PROVE  walk.steady \subseteq walk.seen
      <3>1. call.last # ZeroId /\ SelectedAfter(call.filter, call.last) = {}
        BY <2>1 DEF NothingNext
      <3>2. call.last \in walk.seen
        BY <1>1, <3>1 DEF IInv, Forward, Underway, Position
      <3>3. \A i \in walk.steady \ walk.seen : call.last < i
        BY <2>1, <3>2 DEF IInv, Forward
      <3>4. walk.steady \subseteq Selected(call.filter)
        BY <1>1 DEF IInv, SameRequest
      <3> QED
        BY <3>1, <3>3, <3>4 DEF SelectedAfter, Beyond
    <2>2. /\ call'.pc # "find" /\ walk'.steady = walk.steady /\ walk'.seen = walk.seen
          /\ UNCHANGED <<repaired, sorted>>
      BY <1>1 DEF TokenGiven, NoCall
    <2> QED
      BY <2>1, <2>2 DEF Remaining
  <1> QED
    BY <1>2, <1>3 DEF IInv

(* A token is made from it, or is not for want of encryption.               *)
LEMMA SomethingNextStep ==
    ASSUME IInv, SomethingNext
    PROVE  IInv'
  <1>1. PICK next : \/ walk' = Shown(walk, TokenFor(call.filter, call.last, next))
                    \/ walk' = Shown([walk EXCEPT !.upset = @ \cup {"encryption"}], NoToken)
    BY DEF SomethingNext
  <1>2. /\ call.pc = "next" /\ call' = NoCall /\ call.last # ZeroId
        /\ UNCHANGED <<docs, repaired, sorted>>
        /\ walk \in Walks /\ call.filter \in SUBSET Values /\ call.last \in Ids \cup {ZeroId}
    BY DEF SomethingNext, IInv, Typed, Calls
  <1>3. CASE walk' = Shown(walk, TokenFor(call.filter, call.last, next))
    <2>1. PICK token : token = TokenFor(call.filter, call.last, next)
      OBVIOUS
    <2>2. /\ token \in Tokens /\ token.given
          /\ token.filter = call.filter /\ token.last = call.last
      BY <1>2, <2>1 DEF TokenFor, Tokens
    <2>3. TokenGiven(token)
      BY <1>2, <1>3, <2>1, <2>2 DEF TokenGiven, Shown, Walks
    <2>4. Typed' /\ SameRequest' /\ FromTheStart' /\ ListedMatch' /\ Forward'
      BY <1>2, <2>2, <2>3, TokenGivenFacts
    <2>5. call'.pc # "find" /\ ~walk'.complete
      BY <2>2, <2>3 DEF TokenGiven, NoCall
    <2> QED
      BY <2>4, <2>5 DEF IInv, Remaining
  <1>4. CASE walk' = Shown([walk EXCEPT !.upset = @ \cup {"encryption"}], NoToken)
    <2>1. TokenGiven(NoToken) /\ walk'.upset # {}
      BY <1>2, <1>4, Beginnings DEF TokenGiven, Shown, Walks, NoToken
    <2>2. ~NoToken.given /\ NoToken \in Tokens
      BY Beginnings DEF NoToken
    <2>3. Typed' /\ SameRequest' /\ FromTheStart' /\ ListedMatch' /\ Forward'
      BY <1>2, <2>1, <2>2, TokenGivenFacts
    <2>4. call'.pc # "find"
      BY <1>2 DEF NoCall
    <2> QED
      BY <2>1, <2>3, <2>4 DEF IInv, Remaining
  <1> QED
    BY <1>1, <1>3, <1>4

-----------------------------------------------------------------------------
(* What no longer matches is not steady, and what comes to match between    *)
(* the count and the query upsets the count.                                *)
LEMMA WriteStep ==
    ASSUME IInv, Write
    PROVE  IInv'
  <1> DEFINE came == call.pc = "find"
                     /\ ~(Matching(docs', call.filter) \subseteq Selected(call.filter))
  <1>1. /\ walk \in Walks /\ UNCHANGED <<call, repaired, sorted>>
        /\ walk' = [walk EXCEPT !.steady = @ \cap Matching(docs', walk.filter),
                                !.upset  = IF came THEN @ \cup {"came"} ELSE @]
    BY DEF Write, IInv, Typed
  <1>2. /\ walk'.filter = walk.filter /\ walk'.token = walk.token /\ walk'.seen = walk.seen
        /\ walk'.complete = walk.complete /\ walk'.twice = walk.twice
        /\ walk'.stray = walk.stray
        /\ walk'.steady = walk.steady \cap Matching(docs', walk.filter)
        /\ walk'.upset = IF came THEN walk.upset \cup {"came"} ELSE walk.upset
        /\ walk' \in Walks
    BY <1>1 DEF Walks
  <1> HIDE DEF came
  <1>3. Typed'
    <2>1. DOMAIN docs' \subseteq Ids
      BY DEF Write, IInv, Typed
    <2> QED
      BY <1>1, <1>2, <2>1 DEF IInv, Typed
  <1>4. SameRequest' /\ FromTheStart' /\ ListedMatch'
    <2>1. walk'.steady \subseteq Selected(walk.filter)'
      BY <1>2 DEF Selected
    <2> QED
      BY <1>1, <1>2, <2>1 DEF IInv, SameRequest, FromTheStart, ListedMatch, Reading
  <1>5. Forward'
    <2>1. Position' = Position /\ (Underway' <=> Underway)
      BY <1>1, <1>2 DEF Position, Underway
    <2> QED
      BY <1>1, <1>2, <2>1 DEF IInv, Forward
  <1>6. Remaining'
    <2>1. ASSUME call.pc = "find", "came" \notin walk'.upset
          PROVE  Cardinality(Selected(call.filter)') <= call.total
      <3>1. ~came /\ "came" \notin walk.upset
        BY <1>2, <2>1
      <3>2. Selected(call.filter)' \subseteq Selected(call.filter)
        BY <1>1, <2>1, <3>1 DEF Selected, came
      <3>3. Cardinality(Selected(call.filter)) <= call.total
        BY <2>1, <3>1 DEF IInv, Remaining
      <3>4. /\ Cardinality(Selected(call.filter)') <= Cardinality(Selected(call.filter))
            /\ Cardinality(Selected(call.filter)') \in Nat
            /\ Cardinality(Selected(call.filter)) \in Nat
        BY <3>2, Counting, FS_Subset, FS_CardinalityType DEF IInv
      <3>5. call.total \in Nat
        BY DEF IInv, Typed, Calls
      <3> QED
        BY <3>3, <3>4, <3>5
    <2>2. walk'.upset = {} => walk.upset = {}
      BY <1>2
    <2>3. (sorted /\ walk.complete /\ {"total", "filter", "json"} \subseteq repaired
             /\ walk.upset = {})
            => walk.steady \subseteq walk.seen
      BY DEF IInv, Remaining
    <2> QED
      BY <1>1, <1>2, <2>1, <2>2, <2>3 DEF Remaining
  <1> QED
    BY <1>3, <1>4, <1>5, <1>6 DEF IInv

LEMMA StepSound ==
    ASSUME IInv, [Next]_vars
    PROVE  IInv'
  <1>1. CASE UNCHANGED vars
    <2>1. Typed' /\ SameRequest' /\ FromTheStart' /\ ListedMatch'
      BY <1>1 DEF vars, IInv, Typed, SameRequest, FromTheStart, ListedMatch, Reading,
                  Selected
    <2>2. Forward' /\ Remaining'
      BY <1>1 DEF vars, IInv, Forward, Remaining, Underway, Position, Selected
    <2> QED
      BY <2>1, <2>2 DEF IInv
  <1> QED
    BY <1>1, BeginStep, ContinueStep, QueryStep, FindStep, PanicStep, NothingNextStep,
       SomethingNextStep, FailStep, WriteStep
    DEF Next, Serve

(* The invariant that ties a token to what was shown before it.             *)
LEMMA Invariance == Spec => []IInv
  BY InitSound, StepSound, PTL DEF Spec

-----------------------------------------------------------------------------
(* Whoever writes meanwhile, the pages of a walk show no document twice     *)
(* where the database delivers in the order of ids (users.go:33-53).        *)
THEOREM NeverTwice == Spec => []NothingTwice
  <1>1. IInv => NothingTwice
    BY DEF IInv, Forward, NothingTwice
  <1> QED
    BY <1>1, Invariance, PTL

(* There they show the documents that match all the time without a gap, and *)
(* at the end they have shown every one, if the count, the page filter and  *)
(* the token work as they are meant to, no document came to match between   *)
(* the count and the query, and no token was lost to encryption             *)
(* (users.go:44, db.go:361-365, 441-459).                                   *)
THEOREM NeverSkipped == Spec => []NothingSkipped
  <1>1. IInv => NothingSkipped
    BY DEF IInv, Forward, Remaining, NothingSkipped
  <1> QED
    BY <1>1, Invariance, PTL

(* What the filter of a request does not match is on no page of it, though  *)
(* the query is the token's (db.go:417-425, 448-450).                       *)
THEOREM PagesMatch == Spec => []ListedMatch
  <1>1. IInv => ListedMatch
    BY DEF IInv
  <1> QED
    BY <1>1, Invariance, PTL
=============================================================================
