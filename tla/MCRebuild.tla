----------------------------- MODULE MCRebuild -----------------------------
(***************************************************************************)
(*   build gen.h: moc src tmpl    (restat; tmpl does not show in gen.h)    *)
(*   build obj: cc src || gen.h   (deps = gcc)                             *)
(*   build bin: link obj                                                   *)
(* The first version of src includes hdr, later ones gen.h.                *)
(***************************************************************************)
EXTENDS Rebuild

MCSource == {"src", "tmpl", "hdr"}
MCOut == {"gen", "obj", "bin"}
MCIns == [o \in MCOut |-> CASE o = "gen" -> {"src", "tmpl"} [] o = "obj" -> {"src"}
                            [] o = "bin" -> {"obj"}]
MCOrderOnly == [o \in MCOut |-> IF o = "obj" THEN {"gen"} ELSE {}]
MCIgnored == [o \in MCOut |-> IF o = "gen" THEN {"tmpl"} ELSE {}]
MCIncluded == [s \in MCSource |-> [v \in 0 .. MaxEdits |->
                 IF s # "src" THEN {} ELSE IF v = 0 THEN {"hdr"} ELSE {"gen"}]]
=============================================================================
