--------------------------- MODULE MCCollectRetry ---------------------------
(* CollectRetry on small instances: what each one is for is said in its cfg. *)
EXTENDS CollectRetry

Plain == [text |-> FALSE, frag |-> NoIndex, finish |-> "none", error |-> "none", usage |-> FALSE]

\* Those that matter to each other: content, fragments of two calls, with and
\* without the end of the reply and its price, and both kinds of failure.
SomeChunks == {[Plain EXCEPT !.text = TRUE], [Plain EXCEPT !.frag = 1], [Plain EXCEPT !.frag = 2],
               [Plain EXCEPT !.frag = 1, !.finish = "stop", !.usage = TRUE],
               [Plain EXCEPT !.error = "error"],
               [Plain EXCEPT !.finish = "error", !.usage = TRUE],
               [Plain EXCEPT !.text = TRUE, !.finish = "content_filter"]}
=============================================================================
