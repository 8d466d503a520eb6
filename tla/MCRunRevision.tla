--------------------------- MODULE MCRunRevision ---------------------------
(* Two coroutines, two questions about one finding, two patches.  Versions, *)
(* answers and revisions meet in six mixes of requests.                     *)
EXTENDS RunRevision

Swap == Permutations(Callers)

QuestionsAsked == <<"q1", "q2">>
BothAbout == [q \in {"q1", "q2"} |-> {"f"}]
To(q, a) == [id \in {q} |-> a]
SentAnswers == { [q \in {} |-> "long"], To("unknown", "long"),
                 To("q1", "long"), To("q1", "short"), To("q2", "long") }

Mix(kinds, answers, number) == [kinds |-> kinds, answers |-> answers, calls |-> number]
Mixes ==
  { Mix({"patch", "derive", "roadmap", "review"}, {To("q1", "long")}, 3),
    Mix({"patch", "mcp"}, {To("q1", "long")}, 2),
    Mix({"answer", "mcp", "context"}, {To("q1", "long"), To("q2", "long")}, 3),
    Mix({"answer", "context"}, SentAnswers, 3),
    Mix({"answer", "context", "generate", "regenerate", "skip"}, {To("q1", "long"), To("q1", "short")}, 3),
    Mix({"answer", "enter", "skip", "input", "confirm", "continue", "generate", "regenerate"},
        {To("q1", "long")}, 5) }

Block(id, text) == [id |-> id, text |-> text]
Op(action, target, old, new, block) ==
  [action |-> action, target |-> target, old |-> old, new |-> new, block |-> block]
None == Block("", <<>>)

TwoBlocks == <<Block("a", <<"x">>), Block("b", <<"y">>)>>
Deleted == Op("delete_block", "b", <<"y">>, <<>>, None)
Appended == Op("append_text", "a", <<>>, <<"z">>, None)
Changed == Op("set_field", "a", <<"x">>, <<"w">>, None)
Inserted(before, id) ==
  Op(IF before THEN "insert_block_before" ELSE "insert_block_after", "a", <<>>, <<>>, Block(id, <<"n">>))

TwoPatches == { <<Appended, Inserted(FALSE, "c")>>,
                <<Changed, Deleted, Inserted(TRUE, "b")>> }
=============================================================================
