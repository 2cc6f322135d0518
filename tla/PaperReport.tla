----------------------------- MODULE PaperReport -----------------------------
(***************************************************************************)
(* PaperService.report: the journal's newest payloads, aggregated by       *)
(* build_paper_report (backend/app/paper/reporting.py).                    *)
(***************************************************************************)
EXTENDS PaperTrading, FiniteSetsExt

\* list_journal_outcomes: the newest rows, at most limit of them.
ListJournalOutcomes(limit) ==
    {j \in DOMAIN journal : j > Len(journal) - limit}

\* Mutant: an attempt that never filled is counted as a trade.
BuildPaperReportCountsAttempts(rows) ==
    LET count(p(_)) == Cardinality({j \in rows : p(journal[j].outcome)})
        attempt(o) == o.status # "NOT_CREATED"
        noFill(o) == o.status = "PAPER_ENTRY_NO_FILL"
        rejection(o) == o.rejected
        net(j) == journal[j].outcome.net
    IN  [outcomes |-> Cardinality(rows), attempts |-> count(attempt),
         noFills |-> count(noFill), filled |-> count(attempt),
         rejections |-> count(rejection), net |-> MapThenSumSet(net, rows)]

\* The counters and the net sum of build_paper_report; the gross and cost
\* sums are built alike, and the decision and reason counters are left out.
BuildPaperReport(rows) ==
    LET count(p(_)) == Cardinality({j \in rows : p(journal[j].outcome)})
        attempt(o) == o.status # "NOT_CREATED"
        noFill(o) == o.status = "PAPER_ENTRY_NO_FILL"
        filled(o) == o.status = "PAPER_ENTRY_FILLED"
        rejection(o) == o.rejected
        net(j) == journal[j].outcome.net
    IN  [outcomes |-> Cardinality(rows), attempts |-> count(attempt),
         noFills |-> count(noFill), filled |-> count(filled),
         rejections |-> count(rejection), net |-> MapThenSumSet(net, rows)]

\* "Journal P&L reconciliation": a report over the whole journal has the
\* number and the net result of the stored trades, although replays journal
\* every rejection, retry and repeated attempt as well; and no two replays
\* answer that they created the trade of one signal.
ReportReconciles ==
    LET report == BuildPaperReport(ListJournalOutcomes(Len(journal)))
        net(i) == trades[i].net
    IN  /\ report.filled = Len(trades)
        /\ report.net = MapThenSumSet(net, DOMAIN trades)
        /\ report.filled + report.noFills + report.rejections = report.outcomes
        /\ SummariesCountTradesOnce
=============================================================================
