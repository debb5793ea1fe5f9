----------------------------- MODULE ReviewPage -----------------------------
(***************************************************************************)
(* The analytics page (frontend pages/A01_AnalyticsReport.tsx, components/  *)
(* analytics, stores/useAnalyticsStore.ts): the sums of a period, and a     *)
(* review of it that the agent writes from them, asked for up to three      *)
(* times.  The store, and with it the review, outlives the page.            *)
(***************************************************************************)
EXTENDS Naturals, Sequences, SequencesExt

CONSTANTS
    Periods, Week,  \* periods the user can pick, the one the page begins with
    NoPeriod,
    MaxRetries      \* MAX_RETRIES of handleGenerate

ASSUME PeriodAssumption == Week \in Periods /\ NoPeriod \notin Periods
ASSUME RetryAssumption == MaxRetries \in Nat \ {0}

VARIABLES
    report,     \* period of the page (NoPeriod when it is not open) and the store
    fetches,    \* periods whose sums were asked for, in the order of the requests
    job,        \* the loop of handleGenerate
    overlap     \* history: sums were asked for while others were to come

reviewVars == <<report, fetches, job, overlap>>

NoReview == [of |-> NoPeriod, from |-> NoPeriod]
NoJob == [of |-> NoPeriod, from |-> NoPeriod, attempt |-> 0]
ReviewInit ==
    /\ report = [period |-> NoPeriod, loading |-> FALSE, error |-> FALSE, sums |-> NoPeriod,
                 review |-> NoReview, generating |-> FALSE, texts |-> {}]
    /\ fetches = <<>> /\ job = NoJob /\ overlap = FALSE

(* fetchDashboardData.                                                      *)
Fetch(p) ==
    /\ report' = [report EXCEPT !.period = p, !.loading = TRUE, !.error = FALSE]
    /\ fetches' = Append(fetches, p)
    /\ overlap' = (overlap \/ fetches # <<>>)
    /\ UNCHANGED job

OpenReport == Fetch(Week)
CloseReport == report' = [report EXCEPT !.period = NoPeriod] /\ UNCHANGED <<fetches, job, overlap>>

(* While sums are loaded, and after an error, the page has no header.       *)
ReportShown ==
    report.period # NoPeriod /\ ~report.loading /\ ~report.error /\ report.sums # NoPeriod

(* Mutant: the sums are only asked for when the page opens.                 *)
PickPeriod_NoFetch ==
    /\ ReportShown
    /\ \E p \in Periods \ {report.period} : report' = [report EXCEPT !.period = p]
    /\ UNCHANGED <<fetches, job, overlap>>

PickPeriod == ReportShown /\ \E p \in Periods \ {report.period} : Fetch(p)

Retry ==
    /\ report.period # NoPeriod /\ ~report.loading /\ ~ReportShown
    /\ Fetch(report.period)

SumsArrive(i) ==
    /\ report' = [report EXCEPT !.sums = fetches[i], !.loading = FALSE]
    /\ fetches' = RemoveAt(fetches, i)
    /\ UNCHANGED <<job, overlap>>

SumsFail(i) ==
    /\ report' = [report EXCEPT !.error = TRUE, !.loading = FALSE]
    /\ fetches' = RemoveAt(fetches, i)
    /\ UNCHANGED <<job, overlap>>

(* handleGenerate, with the period of the page and the sums of the store.   *)
GenerateReview ==
    /\ ReportShown /\ ~report.generating
    /\ job' = [of |-> report.period, from |-> report.sums, attempt |-> 1]
    /\ report' = [report EXCEPT !.generating = TRUE, !.texts = {}, !.review = NoReview]
    /\ UNCHANGED <<fetches, overlap>>

Writing == job # NoJob
ReviewText ==
    /\ Writing /\ job.attempt \notin report.texts
    /\ report' = [report EXCEPT !.texts = @ \cup {job.attempt}]
    /\ UNCHANGED <<fetches, job, overlap>>

ReviewParsed ==
    /\ Writing /\ job.attempt \in report.texts
    /\ report' = [report EXCEPT !.review = [of |-> job.of, from |-> job.from], !.texts = {},
                                !.generating = FALSE]
    /\ job' = NoJob
    /\ UNCHANGED <<fetches, overlap>>

(* Mutant: one attempt too many.                                           *)
ReviewFails_OneMore ==
    /\ Writing
    /\ IF job.attempt <= MaxRetries
       THEN /\ job' = [job EXCEPT !.attempt = @ + 1]
            /\ report' = [report EXCEPT !.texts = {}]
       ELSE job' = NoJob /\ report' = [report EXCEPT !.generating = FALSE]
    /\ UNCHANGED <<fetches, overlap>>

(* Nothing that could be read as a review, or an error.  The last attempt   *)
(* leaves its text, and after an error says so.                             *)
ReviewFails ==
    /\ Writing
    /\ IF job.attempt < MaxRetries
       THEN /\ job' = [job EXCEPT !.attempt = @ + 1]
            /\ report' = [report EXCEPT !.texts = {}]
       ELSE /\ job' = NoJob
            /\ \E said \in BOOLEAN :
                 report' = [report EXCEPT !.generating = FALSE,
                                          !.texts = IF said THEN @ \cup {MaxRetries} ELSE @]
    /\ UNCHANGED <<fetches, overlap>>

(* The suggested actions of a review that is shown.                         *)
Suggested == ReportShown /\ report.review # NoReview /\ ~report.generating

ReviewTypeOK ==
    /\ report \in [period : Periods \cup {NoPeriod}, loading : BOOLEAN, error : BOOLEAN,
                   sums : Periods \cup {NoPeriod},
                   review : [of : Periods \cup {NoPeriod}, from : Periods \cup {NoPeriod}],
                   generating : BOOLEAN, texts : SUBSET (1..MaxRetries)]
    /\ fetches \in Seq(Periods)
    /\ job \in [of : Periods \cup {NoPeriod}, from : Periods \cup {NoPeriod},
                attempt : 0..MaxRetries]
    /\ overlap \in BOOLEAN

(* Unless requests for sums overlapped, the sums on the page are those of   *)
(* the period it names and a review was written from the sums of the period *)
(* it is about; the button is hidden exactly while one is being written,    *)
(* and text of one attempt is never left in front of another's              *)
(* (A01_AnalyticsReport.tsx:118, AIReviewSection.tsx:151).                  *)
ReviewIsOfItsPeriod ==
    /\ ~overlap => /\ ReportShown => report.sums = report.period
                   /\ report.review.of = report.review.from
    /\ report.generating = Writing
    /\ \A a, b \in report.texts : a = b
    /\ report.review # NoReview => report.texts = {} /\ ~report.generating

(* The review shown is one of the period shown: the empty card says         *)
(* "この期間のAIレビューはまだ生成されていません" (AIReviewSection.tsx:303),  *)
(* but the review stays when another period is picked.                      *)
ReviewIsOfShownPeriod == Suggested => report.review.of = report.period
=============================================================================
