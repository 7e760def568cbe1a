------------------------------- MODULE MCServices -------------------------------
EXTENDS Services, TLC

ServicesSymmetry == Permutations(Instances) \cup Permutations(CallIds) \cup Permutations(RuleJobs)

BothOps == {"move", "copy"}

\* One rule for the documents and one for what is large; one file is both.
McShapes == {[type |-> "extension", op |-> "eq", texts |-> {"pdf"}, bound |-> None],
             [type |-> "size", op |-> "gte", texts |-> {}, bound |-> 2]}
McFacts == [f \in FileIds |->
    [size |-> IF f = 1 THEN 1 ELSE 2, extension |-> IF f = 3 THEN None ELSE "pdf",
     path_pattern |-> "path", mime_type |-> None, name_pattern |-> "name"]]

Wanted(t, o, v) == [type |-> t, op |-> o, value |-> v, enabled |-> TRUE]
McCriteria ==
    {{},
     {Wanted("atime", "lt", 2), Wanted("type", "eq", "file")},
     {Wanted("mtime", "lte", 1), Wanted("size", "gt", 100)},
     {Wanted("ctime", "lt", 2)},
     {Wanted("atime", "eq", 2)},
     {Wanted("type", "eq", "link"), Wanted("name", "matches", {"a", "b"}),
      [Wanted("mtime", "gt", 9) EXCEPT !.enabled = FALSE]}}
McTexts == [name |-> "a", iname |-> "a", perm |-> "755", user |-> "u", group |-> "g"]

\* Too small for the file by a megabyte, just large enough, and large.
McRoom == {[free |-> 2048, files |-> 0, there |-> TRUE],
           [free |-> 2049, files |-> 100, there |-> TRUE],
           [free |-> 20480, files |-> 100, there |-> TRUE],
           [free |-> 20480, files |-> 9000, there |-> TRUE]}
=============================================================================
