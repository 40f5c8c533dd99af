--------------------------- MODULE ArtifactCompare ---------------------------
(***************************************************************************)
(* regen_figures.py --compare: the artifacts of the repository against a   *)
(* saved set of any layout.  A fingerprint is the sequence of the files    *)
(* looked for, in the order of the glob patterns: records [dir, name,      *)
(* hash], with the hash NoFile where nothing was found.  What is hashed    *)
(* (bytes, or the pixels of a PNG) is left out.                            *)
(***************************************************************************)
EXTENDS Naturals, Sequences, FiniteSetsExt

ByPath(file) == <<file.dir, file.name>>
ByName(file) == file.name

NoFile == {}
Found(fp) == {i \in DOMAIN fp : fp[i].hash # NoFile}

\* {Key(k): hash}, where of the files with one key the last one found wins.
Dict(fp, Key(_)) ==
    [k \in {Key(fp[i]) : i \in Found(fp)} |->
        fp[Max({i \in Found(fp) : Key(fp[i]) = k})].hash]

\* _report: 1 when something differs or is missing here; what only exists
\* here does not count.
Verdict(cur, ref) ==
    IF \A k \in DOMAIN ref : k \in DOMAIN cur /\ cur[k] = ref[k] THEN 0 ELSE 1

\* A mutation of CompareCode: paths only.
CompareByPath(cur, ref) == Verdict(Dict(cur, ByPath), Dict(ref, ByPath))

\* compare: by relative path when any path lines up, else by file name.
CompareCode(cur, ref) ==
    LET no_path == DOMAIN Dict(cur, ByPath) \cap DOMAIN Dict(ref, ByPath) = {}
        shared == DOMAIN Dict(cur, ByName) \cap DOMAIN Dict(ref, ByName)
    IN IF no_path /\ shared # {}
       THEN Verdict(Dict(cur, ByName), Dict(ref, ByName))
       ELSE Verdict(Dict(cur, ByPath), Dict(ref, ByPath))
=============================================================================
