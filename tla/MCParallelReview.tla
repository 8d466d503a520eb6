-------------------------- MODULE MCParallelReview --------------------------
(* Texts that differ in the depth of the review they get, in who reviews    *)
(* them and in what these find; one has an acceptance section with nothing  *)
(* in it.                                                                   *)
EXTENDS ParallelReview

Doc(size, lines) == [size |-> size, lines |-> lines]
Named(modules, roles) == Line("text", "none", {}, modules, roles)

MCDocuments ==
    {Doc("sparse", <<Text({})>>),
     Doc("compact", <<Text({}), Heading("flows"), Text({"must"})>>),
     Doc("long", <<Text({}), Heading("flows"), Text({}), Heading("acceptance"),
                   Text({"must"}), Text({"failure"}), Named({"a", "b", "c"}, {})>>),
     Doc("compact", <<Heading("flows"), Text({"api"}), Text({"integration"}),
                      Named({}, {"qa", "backend", "design", "data"})>>),
     Doc("compact", <<Text({"must"}), Text({"audit"}), Text({"rollback", "failure"})>>),
     Doc("compact", <<Text({"flow"}), Text({"sso"})>>),
     Doc("compact", <<Text({"flow"}), Text({"encryption", "integration"}),
                      Heading("acceptance")>>)}
=============================================================================
