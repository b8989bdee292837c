------------------------------ MODULE MCLoader ------------------------------
(* A small instance of Loader. *)
EXTENDS Loader

CONSTANTS e1, e2, db, http, known, unknown, anon, label, private

Plugin(isolate) ==
    [group |-> FALSE, key |-> NoKey, name |-> known, config |-> "good", disabled |-> FALSE,
     inject |-> <<[service |-> db, config |-> "good"]>>, isolate |-> isolate]

Isolate(service, policy) == [service |-> service, policy |-> policy]

MixedRow   == Plugin(<<Isolate(http, label), Isolate(db, private)>>)
OffRow     == [Plugin(<<>>) EXCEPT !.disabled = TRUE]
\* The explicit key is preferred, and unknown; a layer's preparation panics.
UnknownRow == [Plugin(<<>>) EXCEPT !.key = unknown]
BrokenRow  == [Plugin(<<>>) EXCEPT !.inject[1].config = "panics"]
\* Refused: a Service placed twice, and a Plugin without an identity.
TwiceRow   == Plugin(<<Isolate(db, label), Isolate(db, private)>>)
UnnamedRow == [Plugin(<<>>) EXCEPT !.name = NoKey]

MCRow == {MixedRow, OffRow, UnknownRow, BrokenRow, TwiceRow, UnnamedRow, EntryGroup}
=============================================================================
