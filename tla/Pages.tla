------------------------------- MODULE Pages -------------------------------
(***************************************************************************)
(* Listing the users collection page by page (queryDocuments, NextPageToken *)
(* and paginatedFilterBuilder of internal/store/db.go, ListUsers of         *)
(* users.go, pagetoken.go), while documents come, go and change. Handlers   *)
(* pass no order, and the code for orders is left out with them.            *)
(*                                                                         *)
(* Six mistakes end every listing before a second page; the variable        *)
(* repaired says which are taken to be mended. {} is the program as it is,  *)
(* the other values show what the rest of the code then does:               *)
(*   "list"    the list is appended to through a nil pointer;               *)
(*   "total"   the size that is compared is never set;                      *)
(*   "filter"  the page filter has a value where a document is meant, and   *)
(*             selects nothing;                                             *)
(*   "id"      it then asks for an operator $oid, which there is not;       *)
(*   "token"   a token is decoded into a nil pointer;                       *)
(*   "json"    the page filter does not survive the encoding of the token.  *)
(***************************************************************************)
EXTENDS Integers, FiniteSets

CONSTANTS
    Ids,        \* object ids, numbered in their order: 12 bytes each, so finitely many
    Values,     \* what the fields hold that clients filter by
    Filters,    \* filters of the clients, each as the set of values it matches
    Sizes,      \* page sizes; none limits that is not positive
    MaxChanges  \* bound: writes of others while one client lists

ASSUME PagesAssumption ==
    /\ IsFiniteSet(Ids)
    /\ Ids \subseteq Nat \ {0}
    /\ Filters \subseteq SUBSET Values
    /\ Sizes \subseteq Int
    /\ MaxChanges \in Nat

Defects == {"list", "total", "filter", "id", "token", "json"}

(* The id of a variable of type User before anything is decoded into it.    *)
ZeroId == 0

NoToken == [given |-> FALSE, filter |-> {}, last |-> ZeroId]

VARIABLES
    docs,      \* the collection, a function from ids to values
    repaired,  \* which defects are mended
    sorted,    \* does the database deliver in the order of ids, unasked?
    call,      \* the goroutine that serves the client, and its local variables
    walk,      \* the client, and (history) what it was shown since it began
    changes    \* how many writes of others there were

vars == <<docs, repaired, sorted, call, walk, changes>>

-----------------------------------------------------------------------------
(* The documents of the collection ds that a filter matches.                *)
Matching(ds, filter) == {i \in DOMAIN ds : ds[i] \in filter}

Selected(filter) == Matching(docs, filter)

(* Mutant: $gte in place of $gt.                                            *)
BeyondOrEqual(last, i) == last <= i

(* The condition of the page filter on the id.                              *)
Beyond(last, i) == last < i

(* paginatedFilterBuilder: the documents of the filter beyond last.         *)
SelectedAfter(filter, last) == {i \in Selected(filter) : Beyond(last, i)}

-----------------------------------------------------------------------------
NoCall == [pc |-> "idle", filter |-> {}, size |-> 0, token |-> NoToken,
           total |-> 0, last |-> ZeroId]

(* The client gives up, or knows the whole list.                            *)
Over == [filter |-> {}, token |-> NoToken, listing |-> FALSE, complete |-> FALSE,
         seen |-> {}, steady |-> {}, twice |-> {}, stray |-> {}, upset |-> {}]

(* The client lists on with a token, and is through without one.            *)
Shown(w, token) == [w EXCEPT !.token = token, !.listing = token.given, !.complete = ~token.given]

(* A first call, without a token.                                           *)
Begin ==
    /\ call.pc = "idle"
    /\ ~walk.listing
    /\ \E f \in Filters, s \in Sizes :
        /\ call' = [NoCall EXCEPT !.pc = "query", !.filter = f, !.size = s]
        /\ walk' = [Over EXCEPT !.filter = f, !.listing = TRUE, !.steady = Selected(f)]
    /\ UNCHANGED <<docs, repaired, sorted, changes>>

(* A call with the token of the last answer; the client repeats its filter, *)
(* or changes it.                                                           *)
Continue ==
    /\ call.pc = "idle"
    /\ walk.token.given
    /\ \E f \in Filters, s \in Sizes :
        call' = [NoCall EXCEPT !.pc = "query", !.filter = f, !.size = s, !.token = walk.token]
    /\ UNCHANGED <<docs, repaired, sorted, walk, changes>>

(* Mutant: queryDocuments does not compare the filters.                     *)
AcceptsAnyFilter(filter, token) == token.given => "token" \in repaired

(* The token can be decoded, and was made for this filter.                  *)
Accepts(filter, token) == token.given => "token" \in repaired /\ filter = token.filter

(* queryDocuments up to the count of all documents of the filter, with or   *)
(* without a token.                                                         *)
Query ==
    /\ call.pc = "query"
    /\ Accepts(call.filter, call.token)
    /\ call' = [call EXCEPT !.pc = "find", !.total = Cardinality(Selected(call.filter))]
    /\ UNCHANGED <<docs, repaired, sorted, walk, changes>>

(* What the query selects: the filter in a token stands for that of the     *)
(* request. As JSON leaves it, it matches nothing.                          *)
Queried(filter, token) ==
    IF ~token.given THEN Selected(filter)
    ELSE {i \in SelectedAfter(token.filter, token.last) : "json" \in repaired}

(* As many of the selected documents as fit, in the order of ids or in any; *)
(* last is the one decoded last.                                            *)
Page(selected, page, last) ==
    /\ Cardinality(page) = IF call.size <= 0 \/ Cardinality(selected) < call.size
                           THEN Cardinality(selected) ELSE call.size
    /\ IF page = {} THEN last = ZeroId ELSE last \in page
    /\ sorted => /\ \A i \in page, j \in selected \ page : i < j
                 /\ \A i \in page : i <= last

(* The query, and the loop of ListUsers. The size compared is the named     *)
(* result, which nothing sets.                                              *)
Find ==
    LET selected == Queried(call.filter, call.token)
        total    == IF "total" \in repaired THEN call.total ELSE 0
    IN
    /\ call.pc = "find"
    /\ "list" \in repaired
    /\ \E page \in SUBSET selected, last \in selected \cup {ZeroId} :
        LET shown == [walk EXCEPT !.seen  = @ \cup page,
                                  !.twice = @ \cup (walk.seen \cap page),
                                  !.stray = @ \cup (page \ Selected(call.filter))]
        IN
        /\ Page(selected, page, last)
        /\ IF call.size = Cardinality(page) /\ total > Cardinality(page)
           THEN /\ call' = [call EXCEPT !.pc = "next", !.last = last]
                /\ walk' = shown
           ELSE /\ call' = NoCall
                /\ walk' = Shown(shown, NoToken)
    /\ UNCHANGED <<docs, repaired, sorted, changes>>

FindPanics ==
    /\ call.pc = "find"
    /\ "list" \notin repaired
    /\ call' = [NoCall EXCEPT !.pc = "panic"]
    /\ UNCHANGED <<docs, repaired, sorted, walk, changes>>

(* Mutant: the page filter is made from the document found, not from the    *)
(* last one of the page.                                                    *)
TokenOfNext(filter, last, next) == [given |-> TRUE, filter |-> filter, last |-> next]

TokenFor(filter, last, next) == [given |-> TRUE, filter |-> filter, last |-> last]

(* NextPageToken finds nothing behind the last document: no token.          *)
NothingNext ==
    /\ call.pc = "next"
    /\ "filter" \notin repaired \/ ("id" \in repaired /\ call.last # ZeroId
                                     /\ SelectedAfter(call.filter, call.last) = {})
    /\ call' = NoCall
    /\ walk' = Shown(walk, NoToken)
    /\ UNCHANGED <<docs, repaired, sorted, changes>>

(* It finds a document: a token, or none and no error when encrypting it    *)
(* failed. An id that is not known is not converted (Fail).                 *)
SomethingNext ==
    /\ call.pc = "next"
    /\ {"filter", "id"} \subseteq repaired
    /\ call.last # ZeroId
    /\ \E next \in SelectedAfter(call.filter, call.last) :
        \/ walk' = Shown(walk, TokenFor(call.filter, call.last, next))
        \/ walk' = Shown([walk EXCEPT !.upset = @ \cup {"encryption"}], NoToken)
    /\ call' = NoCall
    /\ UNCHANGED <<docs, repaired, sorted, changes>>

(* The token is refused, a call to the database fails (always, where it is  *)
(* asked for $oid), or the request is canceled.                             *)
Fail ==
    /\ call.pc \in {"query", "find", "next"}
    /\ call' = NoCall
    /\ walk' = Over
    /\ UNCHANGED <<docs, repaired, sorted, changes>>

(* Another request saves a document, new or not, or removes one. A document *)
(* may so begin to match, also between the count and the query of a call.   *)
Write ==
    /\ changes < MaxChanges
    /\ changes' = changes + 1
    /\ \E i \in Ids :
        \/ \E v \in Values : docs' = [j \in DOMAIN docs \cup {i} |-> IF j = i THEN v ELSE docs[j]]
        \/ docs' = [j \in DOMAIN docs \ {i} |-> docs[j]]
    /\ docs' # docs
    /\ LET came == call.pc = "find" /\ ~(Matching(docs', call.filter) \subseteq Selected(call.filter))
       IN  walk' = [walk EXCEPT !.steady = @ \cap Matching(docs', walk.filter),
                                !.upset  = IF came THEN @ \cup {"came"} ELSE @]
    /\ UNCHANGED <<repaired, sorted, call>>

Init ==
    /\ \E S \in SUBSET Ids : docs \in [S -> Values]
    /\ repaired \in SUBSET Defects
    /\ sorted \in BOOLEAN
    /\ call = NoCall
    /\ walk = Over
    /\ changes = 0

Serve == Query \/ Find \/ FindPanics \/ NothingNext \/ SomethingNext \/ Fail

Next == Begin \/ Continue \/ Serve \/ Write

(* A goroutine runs, calls to the database return, and the client goes on   *)
(* for as long as it is given tokens.                                       *)
Spec == Init /\ [][Next]_vars /\ WF_vars(Serve) /\ WF_vars(Continue)

-----------------------------------------------------------------------------
(* Where the database delivers in the order of ids, as the code takes it to *)
(* (db.go:306), a client is shown documents without a gap: of those that    *)
(* matched all the time, what is missing comes after all that was shown.    *)
(* And once it is through nothing is missing, unless the count was too      *)
(* small because a document came to match after it, or a token could not be *)
(* encrypted (users.go:44, db.go:361-365, 441-459).                         *)
NothingSkipped ==
    sorted =>
        /\ \A i \in walk.steady \ walk.seen, j \in walk.seen : j < i
        /\ ( /\ walk.complete
             /\ {"total", "filter", "json"} \subseteq repaired
             /\ walk.upset = {} ) => walk.steady \subseteq walk.seen

(* There no document is shown twice, also not after an empty page, whose    *)
(* token would be made from a user that was never decoded                   *)
(* (users.go:33-53).                                                        *)
NothingTwice == sorted => walk.twice = {}

(* No page has a document that the filter of its request does not match,    *)
(* though the query is the one of the token (db.go:417-425, 448-450).       *)
ListedMatch == walk.stray = {}

(* Whatever is mended and in whatever order documents are delivered, the    *)
(* pages come to an end (or the process does).                              *)
PagesEnd == walk.listing ~> ~walk.listing \/ call.pc = "panic"
=============================================================================
