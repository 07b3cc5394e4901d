---------------------------- MODULE CanvasHistory ----------------------------
(***************************************************************************)
(* What the only write path of a canvas promises: a history of documents,  *)
(* each the result of one whole batch of ops on the one before it.  No     *)
(* batch is half applied, none is applied to a document that was already   *)
(* replaced, and no document of the history is ever rewritten.             *)
(***************************************************************************)
EXTENDS Sequences, Naturals

CONSTANTS First,         \* the document of a new canvas
          Batches,       \* the sequences of ops a request may carry
          Apply(_, _),   \* the document after a batch,
          Rejected       \* or that the batch is refused

VARIABLE docs            \* the document of version v is docs[v + 1]

HistoryInit == docs = <<First>>

Extend(ops) ==
  LET next == Apply(docs[Len(docs)], ops)
  IN  next # Rejected /\ docs' = Append(docs, next)

HistoryNext == \E ops \in Batches : Extend(ops)

HistorySpec == HistoryInit /\ [][HistoryNext]_docs
==============================================================================
