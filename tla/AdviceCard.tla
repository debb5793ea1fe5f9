----------------------------- MODULE AdviceCard -----------------------------
(***************************************************************************)
(* The advice card of today's page (frontend components/daily/             *)
(* AIAdviceCard.tsx): it reads one response, shows the time blocks it      *)
(* proposes, and adds the chosen ones one after the other.  Its state is    *)
(* lost when the page is left; a loop that adds blocks goes on.            *)
(***************************************************************************)
EXTENDS Naturals, FiniteSets

CONSTANTS
    Blocks,     \* the time blocks of an advice
    MaxAdvice   \* advices asked for

ASSUME AdviceAssumption == IsFiniteSet(Blocks) /\ MaxAdvice \in Nat

VARIABLES
    advice,     \* the state of the card; no is 0 when the page is not open
    advices,    \* advices asked for
    applies,    \* loops that add blocks: of which advice, which are left
    added,      \* how often each block of an advice was added
    disturbed   \* history: an addition failed, or an advice was asked for
                \* while the blocks of another were added

adviceVars == <<advice, advices, applies, added, disturbed>>

Advices == 1..MaxAdvice
\* visit: which visit of the page; reading: the advice whose response is read
NewCard(visit) ==
    [visit |-> visit, reading |-> 0, text |-> FALSE, result |-> 0, selected |-> {},
     applying |-> FALSE, applied |-> 0]

AdviceInit ==
    /\ advice = NewCard(0)
    /\ advices = 0 /\ applies = {} /\ disturbed = FALSE
    /\ added = [n \in Advices |-> [b \in Blocks |-> 0]]

(* Today's page opens, or another page or day does.                         *)
ShowCard(visit) == advice' = NewCard(visit) /\ UNCHANGED <<advices, applies, added, disturbed>>

(* handleGenerate: there is no button while a response is read, but there   *)
(* is one while blocks are added.                                           *)
Generate ==
    /\ advice.visit # 0 /\ advice.reading = 0 /\ advices < MaxAdvice
    /\ advices' = advices + 1
    /\ advice' = [advice EXCEPT !.reading = advices', !.text = FALSE, !.result = 0,
                                !.selected = {}, !.applied = 0]
    /\ disturbed' = (disturbed \/ advice.applying)
    /\ UNCHANGED <<applies, added>>

Reads == advice.reading # 0
AdviceText ==
    /\ Reads /\ ~advice.text
    /\ advice' = [advice EXCEPT !.text = TRUE]
    /\ UNCHANGED <<advices, applies, added, disturbed>>

(* All of the text was read and understood; its blocks are all selected.    *)
AdviceParsed ==
    /\ Reads /\ advice.text
    /\ advice' = [advice EXCEPT !.reading = 0, !.text = FALSE, !.result = advice.reading,
                                !.selected = Blocks]
    /\ UNCHANGED <<advices, applies, added, disturbed>>

(* The text is no advice, or the response broke off: the text is shown.     *)
AdviceFails ==
    /\ Reads
    /\ \E t \in {advice.text, TRUE} :
         advice' = [advice EXCEPT !.reading = 0, !.text = t]
    /\ UNCHANGED <<advices, applies, added, disturbed>>

Shown == advice.result # 0 /\ ~Reads
ToggleBlock ==
    /\ Shown /\ advice.applied = 0
    /\ \E b \in Blocks :
         advice' = [advice EXCEPT !.selected = IF b \in @ THEN @ \ {b} ELSE @ \cup {b}]
    /\ UNCHANGED <<advices, applies, added, disturbed>>

(* handleApplyBlocks: the blocks selected at the click; the button is       *)
(* disabled while blocks are added.                                         *)
Apply ==
    /\ Shown /\ advice.applied = 0 /\ advice.selected # {} /\ ~advice.applying
    /\ advice' = [advice EXCEPT !.applying = TRUE]
    /\ applies' = applies \cup {[visit |-> advice.visit, of |-> advice.result,
                               left |-> advice.selected, count |-> Cardinality(advice.selected)]}
    /\ UNCHANGED <<advices, added, disturbed>>

(* addTimeBlock of one block: its failures are kept in the store, and it is *)
(* counted either way.  An answer may be lost after the block was added.    *)
AddOne(l) ==
    \E b \in l.left, done, known \in BOOLEAN :
        LET rest == l.left \ {b} IN
        /\ added' = [added EXCEPT ![l.of][b] = IF done THEN @ + 1 ELSE @]
        /\ disturbed' = (disturbed \/ ~(done /\ known))
        /\ applies' = (applies \ {l}) \cup (IF rest = {} THEN {} ELSE {[l EXCEPT !.left = rest]})
        /\ advice' = IF rest = {} /\ l.visit = advice.visit
                     THEN [advice EXCEPT !.applied = l.count, !.applying = FALSE] ELSE advice
        /\ UNCHANGED advices

AdviceTypeOK ==
    /\ advice \in [visit : Nat, reading : {0} \cup Advices, text : BOOLEAN,
                   result : {0} \cup Advices, selected : SUBSET Blocks, applying : BOOLEAN,
                   applied : 0..Cardinality(Blocks)]
    /\ advices \in {0} \cup Advices
    /\ applies \subseteq [visit : Nat, of : Advices, left : (SUBSET Blocks) \ {{}},
                          count : 1..Cardinality(Blocks)]
    /\ added \in [Advices -> [Blocks -> Nat]] /\ disturbed \in BOOLEAN

(* No proposed block is added twice, and the number of added blocks that    *)
(* the card names is the number that was, unless an addition failed or      *)
(* another advice was asked for meanwhile (AIAdviceCard.tsx:172).           *)
AdviceIsAdded ==
    /\ \A n \in Advices, b \in Blocks : added[n][b] <= 1
    /\ advice.applied > 0 /\ ~disturbed =>
         advice.applied = Cardinality({b \in Blocks : added[advice.result][b] = 1})
=============================================================================
