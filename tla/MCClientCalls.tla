--------------------------- MODULE MCClientCalls ---------------------------
(* ClientCalls on small instances: what each one is for is said in its cfg. *)
EXTENDS ClientCalls

\* Job answers that matter to each other: fields left out, and every way to end.
NoWord == [status |-> "", urls |-> "", cost |-> "", error |-> ""]
SomeAnswers == {NoWord, [NoWord EXCEPT !.status = "pending"],
                [NoWord EXCEPT !.urls = "some", !.cost = "priced"],
                [NoWord EXCEPT !.urls = "none"],
                [NoWord EXCEPT !.status = "completed", !.urls = "some", !.cost = "priced"],
                [NoWord EXCEPT !.status = "completed"],
                [NoWord EXCEPT !.status = "failed"],
                [NoWord EXCEPT !.status = "failed", !.error = "refusal"]}

\* A square, ratios that are cut at the edge, at the area, and once more behind the
\* rounding, the widest, one beyond it.
SomeAspects == {<<1, 1>>, <<9, 16>>, <<64, 27>>, <<167, 191>>, <<3, 1>>, <<31, 10>>}

PlainScript == [events |-> <<"text", "usage", "end">>, blocks |-> FALSE]
BadScript == [events |-> <<"text", "error", "end">>, blocks |-> TRUE]
SomeScripts == <<PlainScript, BadScript>>
=============================================================================
