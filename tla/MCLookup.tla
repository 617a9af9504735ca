------------------------------ MODULE MCLookup ------------------------------
(* Values for Lookup: five databases on three instances.  The ids are named
   for how they compare with the input, and the name of instance "new" contains
   the input.  One of the two filters ignores the case; the other minds it, and
   hides what only ignoring the case matches, except on "new". *)
EXTENDS Lookup

Db(i, id) == [instance |-> i, id |-> id]
MCListing == <<Db("pg", "exact"), Db("my", "folded"), Db("my", "inside"),
               Db("new", "inside"), Db("new", "other")>>
MCTier == [id \in {"exact", "folded", "inside", "other"} |->
            CASE id = "exact" -> 1 [] id = "folded" -> 2 [] id = "inside" -> 3
              [] id = "other" -> 4]
MCProject == [d \in DATABASES |-> IF d.id \in {"folded", "other"} THEN "ops" ELSE "hr"]
MCFilters == {DATABASES, {d \in DATABASES : d.id = "exact" \/ d.instance = "new"}}
MCSources == [i \in {"pg", "my", "new"} |->
               CASE i = "pg" -> {{"ADMIN"}, {"READ_ONLY", "ADMIN"}}
                 [] i = "my" -> {{"READ_ONLY", "ADMIN"}}
                 [] i = "new" -> {{}}]
MCSimilar == {<<1, 1>>, <<2, 2>>, <<1, 2>>}
=============================================================================
