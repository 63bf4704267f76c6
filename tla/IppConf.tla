------------------------------- MODULE IppConf -------------------------------
(***************************************************************************)
(* ipp-conf.c: what ipp_conf_load() makes of the configuration files.  A   *)
(* file is the sequence of its lines, <<>> if it is not there, and a line  *)
(* is what the parser tells apart: a section, a setting, or something it   *)
(* skips (a comment, an empty line, a syntax error).  Names stand for all  *)
(* of their spellings.  Memory does not run out.                           *)
(***************************************************************************)
EXTENDS Integers, SequencesExt

CONSTANTS
    Word,           \* values of settings: true, false, a path, ""
    True, False,    \* those ipp_conf_bool() understands
    Expand,         \* ipp_conf_expand_path(): the directory that a path names
    NoDir           \* dbg_trace is NULL

ASSUME ConfAssumption ==
    /\ True \cup False \subseteq Word \ {""} /\ True \cap False = {}
    /\ DOMAIN Expand = Word \ {""} /\ \A p \in DOMAIN Expand : Expand[p] # NoDir

Dir == {Expand[p] : p \in DOMAIN Expand}

Section == {"debug", "other", "none"}
Line == [kind : {"section"}, name : Section \ {"none"}]
            \cup [kind : {"setting"}, name : {"enable", "trace", "other"}, value : Word]
            \cup [kind : {"skipped"}]

(* ipp_conf                                                                *)
Conf == [enabled : BOOLEAN, trace : Dir \cup {NoDir}]

NoConf == [enabled |-> FALSE, trace |-> NoDir]

(* "trace" set to nothing ends tracing.                                    *)
TraceDir(value) == IF value = "" THEN NoDir ELSE Expand[value]

(* ipp_conf_apply(); what is not understood changes nothing.               *)
Apply(conf, section, line) ==
    CASE section = "debug" /\ line.name = "enable" /\ line.value \in True \cup False ->
            [conf EXCEPT !.enabled = line.value \in True]
      [] section = "debug" /\ line.name = "trace" ->
            [conf EXCEPT !.trace = TraceDir(line.value)]
      [] OTHER -> conf

(* One turn of the loop of ipp_conf_load_file().                           *)
LoadLine(st, line) ==
    CASE line.kind = "section" -> [st EXCEPT !.section = line.name]
      [] line.kind = "setting" -> [st EXCEPT !.conf = Apply(@, st.section, line)]
      [] line.kind = "skipped" -> st

(* The lines of a file in turn, from outside of any section; [i] is what   *)
(* the first i have come to.                                               *)
Lines(conf, file) ==
    LET After[i \in 0 .. Len(file)] ==
            IF i = 0 THEN [conf |-> conf, section |-> "none"]
            ELSE LoadLine(After[i - 1], file[i])
    IN  After

(* ipp_conf_load_file()                                                    *)
LoadFile(conf, file) == Lines(conf, file)[Len(file)].conf

(* The files have one section between them.                                *)
ConfLoadRunOn(files) == LoadFile(NoConf, FlattenSeq(files))

(* The files in turn, over one configuration.                              *)
FilesInTurn(files) ==
    LET After[i \in 0 .. Len(files)] ==
            IF i = 0 THEN NoConf ELSE LoadFile(After[i - 1], files[i])
    IN  After

(* ipp_conf_load()                                                         *)
ConfLoad(files) == FilesInTurn(files)[Len(files)]

-----------------------------------------------------------------------------
(* The same, said of the files as they lie there (ipp-conf.h, 11-19).      *)

(* A line is in the section that was named last, above it in its file.     *)
InDebug(file, i) ==
    \E k \in 1 .. i - 1 :
        /\ file[k].kind = "section" /\ file[k].name = "debug"
        /\ \A n \in k + 1 .. i - 1 : file[n].kind # "section"

(* Where a setting is given a value that it can have.                      *)
Given(files, name, values) ==
    {p \in UNION {{f} \X DOMAIN files[f] : f \in DOMAIN files} :
        LET line == files[p[1]][p[2]]
        IN  /\ line.kind = "setting" /\ InDebug(files[p[1]], p[2])
            /\ line.name = name /\ line.value \in values}

(* A later file overrides an earlier one, a later line an earlier one.     *)
LastGiven(files, name, values) ==
    LET at == Given(files, name, values)
        p  == CHOOSE p \in at : \A q \in at : q[1] < p[1] \/ (q[1] = p[1] /\ q[2] <= p[2])
    IN  files[p[1]][p[2]].value

AsWritten(files) ==
    [enabled |-> Given(files, "enable", True \cup False) # {}
                    /\ LastGiven(files, "enable", True \cup False) \in True,
     trace   |-> IF Given(files, "trace", Word) = {} THEN NoDir
                 ELSE LET v == LastGiven(files, "trace", Word)
                      IN  IF v = "" THEN NoDir ELSE Expand[v]]
=============================================================================
