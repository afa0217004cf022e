------------------------- MODULE MCReaderLifecycle --------------------------
(* Two goroutines, three Readers, two files and one place to map them: a   *)
(* view of a view, a reload while a lookup runs on the old Reader, and a   *)
(* place that is mapped again after its release all happen.                *)
EXTENDS ReaderLifecycle
=============================================================================
