------------------------- MODULE ApprovalQueueLedger -------------------------
(***************************************************************************)
(* The queue, used by one request at a time, implements the ledger.  A      *)
(* write takes effect when open truncates the file: from then on the old    *)
(* artifact is gone and only the new one can follow, unless the write is    *)
(* lost.                                                                    *)
(***************************************************************************)
EXTENDS ApprovalQueue

Writers(i) == {s \in Slots : req[s].pc = "writing" /\ req[s].job.item = i}

ledgerView ==
    [i \in Items |->
        IF Writers(i) # {} THEN req[CHOOSE s \in Writers(i) : TRUE].out
        ELSE IF file[i] \in {Empty, Garbage} THEN [state |-> "lost"]
        ELSE file[i]]

\* A submission that is received but not yet on disk has drawn its time.
nowView ==
    IF \E s \in Slots : req[s].pc = "opening" /\ req[s].job.op = "submit"
    THEN clock - 1 ELSE clock

Ledger == INSTANCE ApprovalLedger WITH
    ledger <- ledgerView, now <- nowView, Times <- 1..MaxSubmissions

(* Served one at a time, requests that read, truncate and write a file       *)
(* behave as atomic reviews: a decided submission is never decided again,    *)
(* and no approval is lost.                                                  *)
ImplementsLedger == Ledger!LedgerSpec
=============================================================================
