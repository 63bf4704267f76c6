------------------------------- MODULE IppLog --------------------------------
(***************************************************************************)
(* ipp-log.c under threads: "a frontend is free to call it from threads of *)
(* its own" (41-42).  Messages, and the trace files that are begun and     *)
(* ended among them, by any threads in any order.  sane_init() and         *)
(* sane_exit() are called while no other call is in progress, as SANE has  *)
(* it, and so is the "-d" of the tools.                                    *)
(*                                                                         *)
(* A device stands for the file its trace goes to.  Each line is written   *)
(* by one fprintf(), which stdio keeps whole; what is left to the mutex is *)
(* that the file is still there.  Lines on stderr are left out, and so is  *)
(* a failure to write, which the code does not notice.                     *)
(***************************************************************************)
EXTENDS Integers, IppConf

CONSTANTS
    Thread, NoThread,
    Device,         \* devices, by the files their traces go to
    NoFile,         \* ipp_log_file is NULL
    Files,          \* what may be in the directories of configuration
    Env, NoEnv,     \* what SANE_DEBUG_IPP may say, if anything
    MaxCalls        \* bound: calls that threads make

ASSUME LogAssumption ==
    /\ NoThread \notin Thread
    /\ NoFile \notin Device
    /\ Files \subseteq Seq(Seq(Line))
    /\ (\A e \in Env : e.number \in Int) /\ NoEnv \notin Env
    /\ MaxCalls \in Nat

VARIABLES
    initialized,    \* ipp_log_initialized
    level,          \* ipp_log_stderr_level
    file,           \* ipp_log_file
    conf,           \* ipp_log_conf
    mutex,          \* ipp_log_mutex: who holds it
    pc,             \* where each thread is
    device,         \* device of its ipp_log_trace_open(), or NoFile
    out,            \* what is in the files
    calls           \* calls so far

ctl  == <<initialized, level, conf>>
loc  == <<device, calls>>
vars == <<ctl, loc, file, mutex, pc, out>>

Level == 1 .. 4
Debug == 3
Trace == 4

Entry == {"header", "line", "footer"}

(* Places of a thread: waiting for the mutex, and holding it.              *)
Waiting == {"msg", "open", "close"}
Holding == {"look", "write", "reopen", "reclose", "fopen", "header", "end", "fclose", "unlock"}

Init ==
    /\ initialized = FALSE /\ level = 0 /\ file = NoFile /\ conf = NoConf
    /\ mutex = NoThread /\ pc = [t \in Thread |-> "idle"]
    /\ device = [t \in Thread |-> NoFile]
    /\ out = [d \in Device |-> <<>>]
    /\ calls = 0

-----------------------------------------------------------------------------

Quiet == \A t \in Thread : pc[t] = "idle"

(* ipp_log_parse_level(). A word that is no number asks for everything.    *)
ParseLevel(env) ==
    CASE env.word \in {"", "false"} -> 0
      [] env.word = "true" -> Debug
      [] env.word = "number" /\ env.number \in 0 .. Trace -> env.number
      [] OTHER -> Trace

(* What ipp_conf_load() makes of what it may find.                         *)
Loaded == [f \in Files |-> ConfLoad(f)]

(* An ipp_log_init() in which "enable" has the last word.                  *)
LogInitByFile(files, env) ==
    /\ Quiet /\ ~initialized
    /\ initialized' = TRUE
    /\ conf' = Loaded[files]
    /\ level' = CASE conf'.enabled -> Debug
                  [] ~conf'.enabled /\ env # NoEnv -> ParseLevel(env)
                  [] OTHER -> 0
    /\ UNCHANGED <<loc, file, mutex, pc, out>>

(* ipp_log_init()                                                          *)
LogInit(files, env) ==
    /\ Quiet /\ ~initialized
    /\ initialized' = TRUE
    /\ conf' = Loaded[files]
    /\ level' = CASE env # NoEnv -> ParseLevel(env)
                  [] env = NoEnv /\ conf'.enabled -> Debug
                  [] OTHER -> 0
    /\ UNCHANGED <<loc, file, mutex, pc, out>>

Put(what) == out' = [out EXCEPT ![file] = Append(@, what)]

(* ipp_log_exit(); the level stays.                                        *)
LogExit ==
    /\ Quiet /\ initialized
    /\ IF file = NoFile THEN UNCHANGED out ELSE Put("footer")
    /\ file' = NoFile
    /\ conf' = [conf EXCEPT !.trace = NoDir]
    /\ initialized' = FALSE
    /\ UNCHANGED <<level, loc, mutex, pc>>

(* ipp_log_set_level()                                                     *)
SetLevel(l) ==
    /\ Quiet
    /\ level' = l
    /\ UNCHANGED <<initialized, conf, loc, file, mutex, pc, out>>

-----------------------------------------------------------------------------

Goto(t, here, there) == pc[t] = here /\ pc' = [pc EXCEPT ![t] = there]

(* A call that does not return at once.                                    *)
Call(t, place) ==
    /\ Goto(t, "idle", place)
    /\ calls < MaxCalls /\ calls' = calls + 1
    /\ UNCHANGED <<ctl, file, mutex, out>>

(* ipp_log(), up to the mutex: level and file are looked at without it.    *)
Log(t, l) ==
    /\ l <= level \/ file # NoFile
    /\ Call(t, "msg")
    /\ UNCHANGED device

(* ipp_log_trace_open(), up to the mutex, if there is to be a trace and    *)
(* its directory can be made.                                              *)
TraceOpen(t, d) ==
    /\ conf.trace # NoDir
    /\ device' = [device EXCEPT ![t] = d]
    /\ Call(t, "open")

TraceClose(t) == Call(t, "close") /\ UNCHANGED device

-----------------------------------------------------------------------------

(* A thread does not wait.                                                 *)
Barge(t) == mutex' = t

(* pthread_mutex_lock()                                                    *)
Acquire(t) == mutex = NoThread /\ mutex' = t

Lock(t) ==
    /\ Acquire(t)
    /\ \/ Goto(t, "msg", "look")
       \/ Goto(t, "open", "reopen")
       \/ Goto(t, "close", "end")
    /\ UNCHANGED <<ctl, loc, file, out>>

(* A way out that forgets the mutex.                                       *)
KeepMutex == UNCHANGED mutex

(* pthread_mutex_unlock()                                                  *)
Release == mutex' = NoThread

(* The call returns.                                                       *)
Unlock(t) ==
    /\ Goto(t, "unlock", "idle")
    /\ Release
    /\ device' = [device EXCEPT ![t] = NoFile]
    /\ UNCHANGED <<ctl, calls, file, out>>

(* The message goes to the file there was when the call began.             *)
NoTest(t) ==
    /\ Goto(t, "look", "write")
    /\ UNCHANGED <<ctl, loc, file, mutex, out>>

(* ipp_log() looks at ipp_log_file again.                                  *)
TestFile(t) ==
    /\ Goto(t, "look", IF file = NoFile THEN "unlock" ELSE "write")
    /\ UNCHANGED <<ctl, loc, file, mutex, out>>

WriteLine(t) ==
    /\ Goto(t, "write", "unlock")
    /\ Put("line")
    /\ UNCHANGED <<ctl, loc, file, mutex>>

(* ipp_log_trace_close_locked(), for a new trace or for none.              *)
Footer(t) ==
    /\ \/ file = NoFile /\ (Goto(t, "reopen", "fopen") \/ Goto(t, "end", "unlock"))
          /\ UNCHANGED out
       \/ file # NoFile /\ (Goto(t, "reopen", "reclose") \/ Goto(t, "end", "fclose"))
          /\ Put("footer")
    /\ UNCHANGED <<ctl, loc, file, mutex>>

Fclose(t) ==
    /\ Goto(t, "reclose", "fopen") \/ Goto(t, "fclose", "unlock")
    /\ file' = NoFile
    /\ UNCHANGED <<ctl, loc, mutex, out>>

(* The new file takes the place of the old one of that name, or cannot be  *)
(* had.                                                                    *)
Fopen(t) ==
    /\ \/ /\ Goto(t, "fopen", "header")
          /\ file' = device[t] /\ out' = [out EXCEPT ![device[t]] = <<>>]
       \/ /\ Goto(t, "fopen", "unlock")
          /\ UNCHANGED <<file, out>>
    /\ UNCHANGED <<ctl, loc, mutex>>

Header(t) ==
    /\ Goto(t, "header", "unlock")
    /\ Put("header")
    /\ UNCHANGED <<ctl, loc, file, mutex>>

Next ==
    \/ \E f \in Files, e \in Env \cup {NoEnv} : LogInit(f, e)
    \/ \E l \in Level : SetLevel(l)
    \/ LogExit
    \/ \E t \in Thread :
        \/ \E l \in Level : Log(t, l)
        \/ \E d \in Device : TraceOpen(t, d)
        \/ TraceClose(t)
        \/ Lock(t) \/ Unlock(t)
        \/ TestFile(t) \/ WriteLine(t)
        \/ Footer(t) \/ Fclose(t) \/ Fopen(t) \/ Header(t)

Spec == Init /\ [][Next]_vars

-----------------------------------------------------------------------------

(* Every variable, in range; who holds the mutex is between lock and       *)
(* unlock, and the others are not.                                         *)
TypeOK ==
    /\ initialized \in BOOLEAN /\ level \in Level \cup {0}
    /\ file \in Device \cup {NoFile} /\ conf \in Conf
    /\ pc \in [Thread -> {"idle"} \cup Waiting \cup Holding]
    /\ device \in [Thread -> Device \cup {NoFile}]
    /\ \A t \in Thread :
        pc[t] \in {"open", "reopen", "reclose", "fopen"} => device[t] # NoFile
    /\ out \in [Device -> Seq(Entry)] /\ calls \in Nat
    /\ mutex \in Thread \cup {NoThread}
    /\ \A t \in Thread : pc[t] \in Holding <=> mutex = t

(* A trace that begins with its header, and has a footer at its end if at  *)
(* all.                                                                    *)
Framed(c) ==
    \A i \in DOMAIN c :
        /\ c[i] = "header" <=> i = 1
        /\ c[i] = "footer" => i = Len(c)

(* A thread is about to write to the trace.                                *)
Writes(t) == pc[t] \in {"write", "header"}

(* ipp-log.h, 55-58: there is one trace "at a time", and one "already open *)
(* is closed first".  However the calls of threads mix, nothing is written *)
(* to a file that has been closed or not been opened, nothing before a     *)
(* header or after a footer, and the only trace without a footer is the    *)
(* one being written.                                                      *)
TracesAreFramed ==
    /\ \A t \in Thread : Writes(t) => file # NoFile
    /\ \A d \in Device :
        /\ Framed(out[d])
        /\ d # file /\ out[d] # <<>> => out[d][Len(out[d])] = "footer"

Written == [f \in Files |-> AsWritten(f)]

(* ipp-conf.h, 10-12, and ipp-log.c, 174-176: of the files of              *)
(* configuration the last that has a setting decides, whatever else is in  *)
(* them, and the environment has the last word: it turns messages off that *)
(* a file has turned on, and on that no file has.                          *)
SettingsDecide ==
    [][~initialized /\ initialized' =>
        \A f \in Files, e \in Env \cup {NoEnv} : LogInit(f, e) =>
            /\ conf' = Written[f]
            /\ e = NoEnv => level' = IF Written[f].enabled THEN Debug ELSE 0
            /\ e # NoEnv => level' = ParseLevel(e)]_vars
=============================================================================
