---------------------------- MODULE IppLogProofs ----------------------------
(***************************************************************************)
(* The trace files of IppLog are framed, for any number of threads,        *)
(* devices and calls: the mutex makes its holder the only thread that      *)
(* touches the file, and the rest follows from where the holder is.  And   *)
(* what the loops of ipp_conf_load() come to is what the files of          *)
(* configuration say last, for any files: from line to line, and then from *)
(* file to file, the configuration has of each key the last value that was *)
(* given to it so far.                                                     *)
(***************************************************************************)
EXTENDS IppLog, InductionLemmas, SequenceTheorems

Open(c) == c # <<>> /\ c[Len(c)] # "footer"
Ended(c) == c # <<>> /\ c[Len(c)] = "footer"

(* What the threads and the files are made of.                             *)
LogType ==
    /\ file \in Device \cup {NoFile}
    /\ pc \in [Thread -> {"idle"} \cup Waiting \cup Holding]
    /\ device \in [Thread -> Device \cup {NoFile}]
    /\ out \in [Device -> Seq(Entry)]

(* The holder of the mutex is between lock and unlock, and nobody else.    *)
MutexInv ==
    /\ mutex \in Thread \cup {NoThread}
    /\ \A t \in Thread : pc[t] \in Holding <=> mutex = t

OpensADevice ==
    \A t \in Thread : pc[t] \in {"open", "reopen", "reclose", "fopen"} => device[t] # NoFile

(* A place where the open trace has no header yet, or a footer already.    *)
Between == {"header", "reclose", "fclose"}

(* What a thread may rely on where it is.                                  *)
PlaceInv ==
    /\ \A t \in Thread :
        /\ pc[t] = "header" => file # NoFile /\ out[file] = <<>>
        /\ pc[t] \in {"reclose", "fclose"} => file # NoFile /\ Ended(out[file])
        /\ pc[t] = "write" => file # NoFile
        /\ pc[t] = "fopen" => file = NoFile
    /\ file # NoFile /\ (\A t \in Thread : pc[t] \notin Between) => Open(out[file])

FilesInv ==
    \A d \in Device : Framed(out[d]) /\ (d # file /\ out[d] # <<>> => Ended(out[d]))

IInv == LogType /\ MutexInv /\ OpensADevice /\ PlaceInv /\ FilesInv

-----------------------------------------------------------------------------

(* An entry may follow what has its header and no footer.                  *)
LEMMA GoOn ==
    ASSUME NEW c \in Seq(Entry), Framed(c), Open(c), NEW e \in {"line", "footer"}
    PROVE  /\ Append(c, e) \in Seq(Entry) /\ Framed(Append(c, e))
           /\ e = "line" => Open(Append(c, e))
           /\ e = "footer" => Ended(Append(c, e))
<1> DEFINE a == Append(c, e)
<1>1. a \in Seq(Entry) /\ Len(a) = Len(c) + 1 /\ a[Len(c) + 1] = e
      /\ \A i \in 1 .. Len(c) : a[i] = c[i]
  BY DEF Entry
<1>2. Len(c) \in Nat /\ Len(c) >= 1 /\ DOMAIN c = 1 .. Len(c) /\ DOMAIN a = 1 .. Len(a)
  BY <1>1 DEF Open
<1>3. \A i \in DOMAIN c : c[i] # "footer"
  BY <1>2 DEF Open, Framed
<1>4. Framed(a)
  <2> SUFFICES ASSUME NEW i \in DOMAIN a
               PROVE  (a[i] = "header" <=> i = 1) /\ (a[i] = "footer" => i = Len(a))
    BY DEF Framed
  <2>1. CASE i = Len(c) + 1
    BY <2>1, <1>1, <1>2
  <2>2. CASE i \in 1 .. Len(c)
    BY <2>2, <1>1, <1>2, <1>3 DEF Framed
  <2> QED BY <2>1, <2>2, <1>1, <1>2
<1>5. a # <<>> /\ a[Len(a)] = e
  BY <1>1, <1>2
<1> QED BY <1>1, <1>4, <1>5 DEF Open, Ended

(* A trace begins.                                                         *)
LEMMA Begin ==
    /\ <<>> \in Seq(Entry) /\ Framed(<<>>)
    /\ Append(<<>>, "header") \in Seq(Entry)
    /\ Framed(Append(<<>>, "header")) /\ Open(Append(<<>>, "header"))
BY DEF Entry, Framed, Open

(* Where one thread is in Holding, the others are not.                     *)
LEMMA OneHolder ==
    ASSUME MutexInv, NEW t \in Thread, pc[t] \in Holding
    PROVE  mutex = t /\ \A u \in Thread \ {t} : pc[u] \notin Holding
BY DEF MutexInv

-----------------------------------------------------------------------------

(* A call begins: one thread leaves for a place where it waits.            *)
LEMMA CallStep ==
    ASSUME IInv, NEW t \in Thread, NEW place \in Waiting, Call(t, place),
           device' \in [Thread -> Device \cup {NoFile}],
           place = "open" => device'[t] # NoFile,
           \A u \in Thread \ {t} : device'[u] = device[u]
    PROVE  IInv'
<1> USE DEF IInv, Call, Goto, Waiting, Holding
<1>1. /\ pc' = [pc EXCEPT ![t] = place] /\ pc[t] = "idle"
      /\ UNCHANGED <<file, mutex, out>>
  OBVIOUS
<1>2. LogType'
  BY <1>1 DEF LogType
<1>3. MutexInv'
  BY <1>1 DEF LogType, MutexInv
<1>4. OpensADevice'
  BY <1>1 DEF LogType, OpensADevice
<1>5. PlaceInv'
  BY <1>1 DEF LogType, PlaceInv, Between
<1>6. FilesInv'
  BY <1>1 DEF FilesInv
<1> QED BY <1>2, <1>3, <1>4, <1>5, <1>6

(* The mutex is taken, or given back.                                      *)
LEMMA LockStep == ASSUME IInv, NEW t \in Thread, Lock(t) PROVE IInv'
<1> USE DEF IInv, Lock, Acquire, Goto, loc, Waiting, Holding
<1>0. NoThread \notin Thread
  BY LogAssumption DEF LogAssumption
<1>1. /\ UNCHANGED <<file, device, out>> /\ mutex = NoThread /\ mutex' = t
      /\ \/ pc[t] = "msg" /\ pc' = [pc EXCEPT ![t] = "look"]
         \/ pc[t] = "open" /\ pc' = [pc EXCEPT ![t] = "reopen"]
         \/ pc[t] = "close" /\ pc' = [pc EXCEPT ![t] = "end"]
  OBVIOUS
<1>2. LogType'
  BY <1>1 DEF LogType
<1>3. MutexInv'
  BY <1>0, <1>1 DEF LogType, MutexInv
<1>4. OpensADevice'
  BY <1>1 DEF LogType, OpensADevice
<1>5. PlaceInv'
  BY <1>1 DEF LogType, PlaceInv, Between
<1>6. FilesInv'
  BY <1>1 DEF FilesInv
<1> QED BY <1>2, <1>3, <1>4, <1>5, <1>6

LEMMA UnlockStep == ASSUME IInv, NEW t \in Thread, Unlock(t) PROVE IInv'
<1> USE DEF IInv, Unlock, Release, Goto, ctl, Waiting, Holding
<1>0. NoThread \notin Thread
  BY LogAssumption DEF LogAssumption
<1>1. /\ UNCHANGED <<file, out>> /\ mutex' = NoThread
      /\ pc[t] = "unlock" /\ pc' = [pc EXCEPT ![t] = "idle"]
      /\ device' = [device EXCEPT ![t] = NoFile]
  OBVIOUS
<1>2. LogType'
  BY <1>1 DEF LogType
<1>3. MutexInv'
  BY <1>0, <1>1 DEF LogType, MutexInv
<1>4. OpensADevice'
  BY <1>1 DEF LogType, OpensADevice
<1>5. PlaceInv'
  BY <1>1 DEF LogType, PlaceInv, Between
<1>6. FilesInv'
  BY <1>1 DEF FilesInv
<1> QED BY <1>2, <1>3, <1>4, <1>5, <1>6

(* The holder of the mutex goes from one place to another.                 *)
LEMMA HolderMoves ==
    ASSUME IInv, NEW t \in Thread, NEW here \in Holding, NEW there \in Holding,
           Goto(t, here, there), UNCHANGED <<device, mutex>>,
           there \in {"reopen", "reclose", "fopen"} => here \in {"reopen", "reclose"}
    PROVE  /\ MutexInv' /\ OpensADevice' /\ pc' \in [Thread -> {"idle"} \cup Waiting \cup Holding]
           /\ pc[t] = here /\ pc'[t] = there
           /\ \A u \in Thread \ {t} : pc'[u] = pc[u] /\ pc[u] \notin Holding
<1>1. pc[t] = here /\ pc' = [pc EXCEPT ![t] = there]
  BY DEF Goto
<1>2. mutex = t /\ \A u \in Thread \ {t} : pc[u] \notin Holding
  BY <1>1, OneHolder DEF IInv
<1>3. pc' \in [Thread -> {"idle"} \cup Waiting \cup Holding] /\ pc'[t] = there
      /\ \A u \in Thread \ {t} : pc'[u] = pc[u]
  BY <1>1 DEF IInv, LogType
<1>4. MutexInv'
  BY <1>2, <1>3 DEF IInv, MutexInv
<1>5. there # "open"
  BY DEF Holding
<1>6. OpensADevice'
  BY <1>1, <1>3, <1>5 DEF IInv, OpensADevice
<1> QED BY <1>1, <1>2, <1>3, <1>4, <1>6

(* What a thread may rely on, said of the holder alone.                    *)
LEMMA HolderPlace ==
    ASSUME NEW t \in Thread, NEW there \in Holding, pc'[t] = there,
           \A u \in Thread \ {t} : pc'[u] \notin Holding,
           /\ there = "header" => file' # NoFile /\ out'[file'] = <<>>
           /\ there \in {"reclose", "fclose"} => file' # NoFile /\ Ended(out'[file'])
           /\ there = "write" => file' # NoFile
           /\ there = "fopen" => file' = NoFile
           /\ file' # NoFile /\ there \notin Between => Open(out'[file'])
    PROVE  PlaceInv'
<1>1. \A u \in Thread : pc'[u] \in Holding => u = t
  OBVIOUS
<1>2. {"header", "reclose", "fclose", "write", "fopen"} \subseteq Holding
  BY DEF Holding
<1>3. \A u \in Thread :
        pc'[u] \in {"header", "reclose", "fclose", "write", "fopen"} => u = t
  BY <1>1, <1>2
<1> QED BY <1>3 DEF PlaceInv, Ended, Open

-----------------------------------------------------------------------------

LEMMA TestStep == ASSUME IInv, NEW t \in Thread, TestFile(t) PROVE IInv'
<1> DEFINE there == IF file = NoFile THEN "unlock" ELSE "write"
<1>1. Goto(t, "look", there) /\ UNCHANGED <<file, out, device, mutex>>
  BY DEF TestFile, loc
<1>2. "look" \in Holding /\ there \in Holding /\ there \notin {"reopen", "reclose", "fopen"}
  BY DEF Holding
<1> HIDE DEF there
<1>3. /\ MutexInv' /\ OpensADevice' /\ pc' \in [Thread -> {"idle"} \cup Waiting \cup Holding]
      /\ pc[t] = "look" /\ pc'[t] = there
      /\ \A u \in Thread \ {t} : pc'[u] = pc[u] /\ pc[u] \notin Holding
  BY <1>1, <1>2, HolderMoves
<1>4. file # NoFile => Open(out[file])
  BY <1>3 DEF IInv, PlaceInv, Between, Holding
<1>5. PlaceInv'
  BY <1>1, <1>2, <1>3, <1>4, HolderPlace DEF there, Open
<1>6. LogType' /\ FilesInv'
  BY <1>1, <1>3 DEF IInv, LogType, FilesInv, Ended
<1> QED BY <1>3, <1>5, <1>6 DEF IInv

LEMMA WriteStep == ASSUME IInv, NEW t \in Thread, WriteLine(t) PROVE IInv'
<1>1. /\ Goto(t, "write", "unlock") /\ UNCHANGED <<file, device, mutex>>
      /\ out' = [out EXCEPT ![file] = Append(out[file], "line")]
  BY DEF WriteLine, Put, loc
<1>2. "write" \in Holding /\ "unlock" \in Holding /\ "unlock" \notin {"reopen", "reclose", "fopen"}
  BY DEF Holding
<1>3. /\ MutexInv' /\ OpensADevice' /\ pc' \in [Thread -> {"idle"} \cup Waiting \cup Holding]
      /\ pc[t] = "write" /\ pc'[t] = "unlock"
      /\ \A u \in Thread \ {t} : pc'[u] = pc[u] /\ pc[u] \notin Holding
  BY <1>1, <1>2, HolderMoves
<1>4. file \in Device /\ Open(out[file])
  BY <1>3 DEF IInv, PlaceInv, Between, Holding, LogType
<1>5. /\ out' \in [Device -> Seq(Entry)] /\ out'[file] = Append(out[file], "line")
      /\ Framed(out'[file]) /\ Open(out'[file])
      /\ \A d \in Device \ {file} : out'[d] = out[d]
  <2>1. out[file] \in Seq(Entry) /\ Framed(out[file])
    BY <1>4 DEF IInv, LogType, FilesInv
  <2>2. /\ Append(out[file], "line") \in Seq(Entry) /\ Framed(Append(out[file], "line"))
        /\ Open(Append(out[file], "line"))
    BY <2>1, <1>4, GoOn
  <2> QED BY <2>2, <1>1, <1>4 DEF IInv, LogType
<1>6. PlaceInv'
  BY <1>1, <1>2, <1>3, <1>5, HolderPlace DEF Open
<1>7. FilesInv'
  BY <1>1, <1>4, <1>5 DEF IInv, FilesInv, Ended
<1>8. LogType'
  BY <1>1, <1>3, <1>5 DEF IInv, LogType
<1> QED BY <1>3, <1>6, <1>7, <1>8 DEF IInv

(* A footer is written, or there is no trace to end.                       *)
LEMMA FooterStep == ASSUME IInv, NEW t \in Thread, Footer(t) PROVE IInv'
<1>0. PICK here \in {"reopen", "end"}, there \in {"fopen", "unlock", "reclose", "fclose"} :
        /\ Goto(t, here, there) /\ UNCHANGED <<file, device, mutex>>
        /\ there \in {"fopen", "reclose"} => here = "reopen"
        /\ \/ file = NoFile /\ UNCHANGED out /\ there \in {"fopen", "unlock"}
           \/ file # NoFile /\ out' = [out EXCEPT ![file] = Append(out[file], "footer")]
              /\ there \in {"reclose", "fclose"}
  BY DEF Footer, Put, loc
<1>2. /\ here \in Holding /\ there \in Holding
      /\ there \in {"reopen", "reclose", "fopen"} => here \in {"reopen", "reclose"}
  BY <1>0 DEF Holding
<1>3. /\ MutexInv' /\ OpensADevice' /\ pc' \in [Thread -> {"idle"} \cup Waiting \cup Holding]
      /\ pc[t] = here /\ pc'[t] = there
      /\ \A u \in Thread \ {t} : pc'[u] = pc[u] /\ pc[u] \notin Holding
  BY <1>0, <1>2, HolderMoves
<1>4. CASE file = NoFile
  <2>1. UNCHANGED out /\ there \in {"fopen", "unlock"}
    BY <1>0, <1>4
  <2>2. PlaceInv'
    BY <2>1, <1>0, <1>2, <1>3, <1>4, HolderPlace
  <2> QED BY <2>1, <2>2, <1>0, <1>3 DEF IInv, LogType, FilesInv, Ended
<1>5. CASE file # NoFile
  <2>1. out' = [out EXCEPT ![file] = Append(out[file], "footer")] /\ there \in {"reclose", "fclose"}
    BY <1>0, <1>5
  <2>2. file \in Device /\ Open(out[file])
    BY <1>3, <1>5 DEF IInv, PlaceInv, Between, Holding, LogType
  <2>3. out[file] \in Seq(Entry) /\ Framed(out[file])
    BY <2>2 DEF IInv, LogType, FilesInv
  <2>4. /\ Append(out[file], "footer") \in Seq(Entry) /\ Framed(Append(out[file], "footer"))
        /\ Ended(Append(out[file], "footer"))
    BY <2>2, <2>3, GoOn
  <2>5. /\ out' \in [Device -> Seq(Entry)]
        /\ Framed(out'[file]) /\ Ended(out'[file])
        /\ \A d \in Device \ {file} : out'[d] = out[d]
    BY <2>1, <2>2, <2>4 DEF IInv, LogType
  <2>6. PlaceInv'
    BY <2>1, <2>5, <1>0, <1>2, <1>3, <1>5, HolderPlace DEF Between
  <2>7. FilesInv'
    BY <1>0, <2>2, <2>5 DEF IInv, FilesInv, Ended
  <2> QED BY <2>5, <2>6, <2>7, <1>0, <1>3 DEF IInv, LogType
<1> QED BY <1>4, <1>5

LEMMA FcloseStep == ASSUME IInv, NEW t \in Thread, Fclose(t) PROVE IInv'
<1>0. NoFile \notin Device
  BY LogAssumption DEF LogAssumption
<1>1. PICK here \in {"reclose", "fclose"}, there \in {"fopen", "unlock"} :
        /\ Goto(t, here, there) /\ UNCHANGED <<out, device, mutex>> /\ file' = NoFile
        /\ there = "fopen" => here = "reclose"
  BY DEF Fclose, loc
<1>2. /\ here \in Holding /\ there \in Holding
      /\ there \in {"reopen", "reclose", "fopen"} => here \in {"reopen", "reclose"}
  BY <1>1 DEF Holding
<1>3. /\ MutexInv' /\ OpensADevice' /\ pc' \in [Thread -> {"idle"} \cup Waiting \cup Holding]
      /\ pc[t] = here /\ pc'[t] = there
      /\ \A u \in Thread \ {t} : pc'[u] = pc[u] /\ pc[u] \notin Holding
  BY <1>1, <1>2, HolderMoves
<1>4. PlaceInv'
  BY <1>1, <1>2, <1>3, HolderPlace
<1>5. file \in Device /\ Ended(out[file])
  BY <1>3 DEF IInv, PlaceInv, LogType
<1>6. LogType' /\ FilesInv'
  BY <1>0, <1>1, <1>3, <1>5 DEF IInv, LogType, FilesInv
<1> QED BY <1>3, <1>4, <1>6 DEF IInv

LEMMA FopenStep == ASSUME IInv, NEW t \in Thread, Fopen(t) PROVE IInv'
<1>0. NoFile \notin Device
  BY LogAssumption DEF LogAssumption
<1>1. PICK there \in {"header", "unlock"} :
        /\ Goto(t, "fopen", there) /\ UNCHANGED <<device, mutex>>
        /\ \/ /\ there = "header" /\ file' = device[t]
              /\ out' = [out EXCEPT ![device[t]] = <<>>]
           \/ there = "unlock" /\ UNCHANGED <<file, out>>
  BY DEF Fopen, loc
<1>2. /\ "fopen" \in Holding /\ there \in Holding
      /\ there \in {"reopen", "reclose", "fopen"} => "fopen" \in {"reopen", "reclose"}
  BY <1>1 DEF Holding
<1>3. /\ MutexInv' /\ OpensADevice' /\ pc' \in [Thread -> {"idle"} \cup Waiting \cup Holding]
      /\ pc[t] = "fopen" /\ pc'[t] = there
      /\ \A u \in Thread \ {t} : pc'[u] = pc[u] /\ pc[u] \notin Holding
  BY <1>1, <1>2, HolderMoves
<1>4. file = NoFile /\ device[t] \in Device
  BY <1>3 DEF IInv, PlaceInv, OpensADevice, LogType
<1>5. CASE there = "unlock"
  <2>1. UNCHANGED <<file, out>>
    BY <1>1, <1>5
  <2>2. PlaceInv'
    BY <2>1, <1>2, <1>3, <1>4, <1>5, HolderPlace
  <2> QED BY <2>1, <2>2, <1>1, <1>3 DEF IInv, LogType, FilesInv, Ended
<1>6. CASE there = "header"
  <2>1. file' = device[t] /\ out' = [out EXCEPT ![device[t]] = <<>>]
    BY <1>1, <1>6
  <2>2. /\ out' \in [Device -> Seq(Entry)] /\ out'[device[t]] = <<>>
        /\ \A d \in Device \ {device[t]} : out'[d] = out[d]
    BY <2>1, <1>4, Begin DEF IInv, LogType
  <2>3. PlaceInv'
    BY <2>1, <2>2, <1>0, <1>2, <1>3, <1>4, <1>6, HolderPlace DEF Between
  <2>4. FilesInv'
    BY <2>1, <2>2, <1>0, <1>4, Begin DEF IInv, FilesInv, Ended
  <2> QED BY <2>1, <2>2, <2>3, <2>4, <1>1, <1>3, <1>4 DEF IInv, LogType
<1> QED BY <1>5, <1>6

LEMMA HeaderStep == ASSUME IInv, NEW t \in Thread, Header(t) PROVE IInv'
<1>1. /\ Goto(t, "header", "unlock") /\ UNCHANGED <<file, device, mutex>>
      /\ out' = [out EXCEPT ![file] = Append(out[file], "header")]
  BY DEF Header, Put, loc
<1>2. "header" \in Holding /\ "unlock" \in Holding /\ "unlock" \notin {"reopen", "reclose", "fopen"}
  BY DEF Holding
<1>3. /\ MutexInv' /\ OpensADevice' /\ pc' \in [Thread -> {"idle"} \cup Waiting \cup Holding]
      /\ pc[t] = "header" /\ pc'[t] = "unlock"
      /\ \A u \in Thread \ {t} : pc'[u] = pc[u] /\ pc[u] \notin Holding
  BY <1>1, <1>2, HolderMoves
<1>4. file \in Device /\ out[file] = <<>>
  BY <1>3 DEF IInv, PlaceInv, LogType
<1>5. /\ out' \in [Device -> Seq(Entry)]
      /\ Framed(out'[file]) /\ Open(out'[file])
      /\ \A d \in Device \ {file} : out'[d] = out[d]
  <2>1. out' = [out EXCEPT ![file] = Append(<<>>, "header")]
    BY <1>1, <1>4
  <2> QED BY <2>1, <1>4, Begin DEF IInv, LogType
<1>6. PlaceInv'
  BY <1>1, <1>2, <1>3, <1>5, HolderPlace
<1>7. FilesInv'
  BY <1>1, <1>4, <1>5 DEF IInv, FilesInv, Ended
<1> QED BY <1>1, <1>3, <1>5, <1>6, <1>7 DEF IInv, LogType

-----------------------------------------------------------------------------

(* Nobody is in a call.                                                    *)
LEMMA QuietStep ==
    ASSUME IInv, Quiet, UNCHANGED <<pc, mutex, device>>,
           \/ UNCHANGED <<file, out>>
           \/ /\ file' = NoFile
              /\ \/ file = NoFile /\ UNCHANGED out
                 \/ file # NoFile /\ out' = [out EXCEPT ![file] = Append(out[file], "footer")]
    PROVE  IInv'
<1>0. NoFile \notin Device
  BY LogAssumption DEF LogAssumption
<1>1. \A t \in Thread : pc[t] = "idle"
  BY DEF Quiet
<1>2. MutexInv' /\ OpensADevice'
  BY DEF IInv, MutexInv, OpensADevice
<1>3. CASE UNCHANGED <<file, out>>
  BY <1>2, <1>3 DEF IInv, LogType, PlaceInv, FilesInv, Ended, Open
<1>4. CASE file' = NoFile /\ file = NoFile /\ UNCHANGED out
  BY <1>2, <1>4 DEF IInv, LogType, PlaceInv, FilesInv, Ended, Open
<1>5. CASE file' = NoFile /\ file # NoFile /\ out' = [out EXCEPT ![file] = Append(out[file], "footer")]
  <2>1. file \in Device /\ Open(out[file])
    BY <1>1, <1>5 DEF IInv, PlaceInv, LogType, Between
  <2>2. out[file] \in Seq(Entry) /\ Framed(out[file])
    BY <2>1 DEF IInv, LogType, FilesInv
  <2>3. /\ Append(out[file], "footer") \in Seq(Entry) /\ Framed(Append(out[file], "footer"))
        /\ Ended(Append(out[file], "footer"))
    BY <2>1, <2>2, GoOn
  <2>4. /\ out' \in [Device -> Seq(Entry)]
        /\ Framed(out'[file]) /\ Ended(out'[file])
        /\ \A d \in Device \ {file} : out'[d] = out[d]
    BY <1>5, <2>1, <2>3 DEF IInv, LogType
  <2>5. FilesInv'
    BY <1>0, <1>5, <2>1, <2>4 DEF IInv, FilesInv, Ended
  <2>6. PlaceInv'
    BY <1>1, <1>5 DEF PlaceInv
  <2> QED BY <1>2, <1>5, <2>4, <2>5, <2>6 DEF IInv, LogType
<1> QED BY <1>3, <1>4, <1>5

LEMMA LogInit0 == Init => IInv
<1> SUFFICES ASSUME Init PROVE IInv
  OBVIOUS
<1>0. NoThread \notin Thread
  BY LogAssumption DEF LogAssumption
<1>1. LogType /\ OpensADevice
  BY Begin DEF Init, LogType, OpensADevice
<1>2. MutexInv
  BY <1>0 DEF Init, MutexInv, Holding
<1>3. PlaceInv
  BY DEF Init, PlaceInv
<1>4. FilesInv
  BY Begin DEF Init, FilesInv
<1> QED BY <1>1, <1>2, <1>3, <1>4 DEF IInv

LEMMA LogStep == IInv /\ [Next]_vars => IInv'
<1> SUFFICES ASSUME IInv, [Next]_vars PROVE IInv'
  OBVIOUS
<1>1. ASSUME NEW f \in Files, NEW e \in Env \cup {NoEnv}, LogInit(f, e) PROVE IInv'
  BY <1>1, QuietStep DEF LogInit, loc
<1>2. ASSUME NEW l \in Level, SetLevel(l) PROVE IInv'
  BY <1>2, QuietStep DEF SetLevel, loc
<1>3. CASE LogExit
  BY <1>3, QuietStep DEF LogExit, Put, loc
<1>4. ASSUME NEW t \in Thread, NEW l \in Level, Log(t, l) PROVE IInv'
  <2>1. Call(t, "msg") /\ UNCHANGED device /\ "msg" \in Waiting
    BY <1>4 DEF Log, Waiting
  <2> QED BY <2>1, CallStep DEF IInv, LogType
<1>5. ASSUME NEW t \in Thread, NEW d \in Device, TraceOpen(t, d) PROVE IInv'
  <2>1. Call(t, "open") /\ device' = [device EXCEPT ![t] = d] /\ "open" \in Waiting
    BY <1>5 DEF TraceOpen, Waiting
  <2>2. /\ device' \in [Thread -> Device \cup {NoFile}] /\ device'[t] # NoFile
        /\ \A u \in Thread \ {t} : device'[u] = device[u]
    BY <2>1, LogAssumption DEF IInv, LogType, LogAssumption
  <2> QED BY <2>1, <2>2, CallStep
<1>6. ASSUME NEW t \in Thread, TraceClose(t) PROVE IInv'
  <2>1. Call(t, "close") /\ UNCHANGED device /\ "close" \in Waiting
    BY <1>6 DEF TraceClose, Waiting
  <2> QED BY <2>1, CallStep DEF IInv, LogType
<1>7. ASSUME NEW t \in Thread,
             \/ Lock(t) \/ Unlock(t) \/ TestFile(t) \/ WriteLine(t)
             \/ Footer(t) \/ Fclose(t) \/ Fopen(t) \/ Header(t)
      PROVE  IInv'
  BY <1>7, LockStep, UnlockStep, TestStep, WriteStep, FooterStep, FcloseStep, FopenStep,
     HeaderStep
<1>8. CASE UNCHANGED vars
  BY <1>8 DEF vars, loc, IInv, LogType, MutexInv, OpensADevice, PlaceInv, FilesInv, Ended, Open
<1> QED BY <1>1, <1>2, <1>3, <1>4, <1>5, <1>6, <1>7, <1>8 DEF Next

(* One thread at a time is in the code that the mutex guards (ipp-log.c,   *)
(* 45), for any threads and calls.                                         *)
THEOREM OneThreadAtATime ==
    Spec => [](\A t, u \in Thread : pc[t] \in Holding /\ pc[u] \in Holding => t = u)
<1>1. IInv => \A t, u \in Thread : pc[t] \in Holding /\ pc[u] \in Holding => t = u
  BY DEF IInv, MutexInv
<1> QED BY <1>1, LogInit0, LogStep, PTL DEF Spec

(* However calls mix, a trace has one header, at its front, and one        *)
(* footer, at its end, and nothing is written but to the trace that is     *)
(* open (ipp-log.h, 55-58).                                                *)
THEOREM TracesFramed == Spec => []TracesAreFramed
<1>1. IInv => TracesAreFramed
  BY DEF IInv, PlaceInv, FilesInv, TracesAreFramed, Writes, Ended
<1> QED BY <1>1, LogInit0, LogStep, PTL DEF Spec

-----------------------------------------------------------------------------
(* The configuration                                                       *)

Key == {"enable", "trace"}

(* The values that the setting of a key can have.                          *)
ValuesOf(n) == IF n = "enable" THEN True \cup False ELSE Word

(* The value of a key is what v says, or what it was.                      *)
Says(conf1, n, v) ==
    /\ n = "enable" => (conf1.enabled <=> v \in True)
    /\ n = "trace" => conf1.trace = TraceDir(v)

Keeps(conf1, conf0, n) ==
    /\ n = "enable" => conf1.enabled = conf0.enabled
    /\ n = "trace" => conf1.trace = conf0.trace

(* A setting of the key that can be read, line i of a file.                *)
SetsIn(section, line, n) ==
    section = "debug" /\ line.kind = "setting" /\ line.name = n /\ line.value \in ValuesOf(n)

Sets(f, i, n) ==
    f[i].kind = "setting" /\ InDebug(f, i) /\ f[i].name = n /\ f[i].value \in ValuesOf(n)

LEMMA NoConfIs == NoConf \in Conf /\ NoConf.enabled = FALSE /\ NoConf.trace = NoDir
  BY DEF NoConf, Conf

LEMMA TraceDirIs ==
    ASSUME NEW v \in Word
    PROVE  TraceDir(v) \in Dir \cup {NoDir}
  BY ConfAssumption DEF TraceDir, Dir

LEMMA Settings ==
    ASSUME NEW line \in Line, line.kind = "setting"
    PROVE  line.name \in {"enable", "trace", "other"} /\ line.value \in Word
  BY DEF Line

(* A setting in a section.                                                 *)
LEMMA ApplyIs ==
    ASSUME NEW c \in Conf, NEW section \in Section,
           NEW line \in Line, line.kind = "setting"
    PROVE  /\ Apply(c, section, line) \in Conf
           /\ \A n \in Key :
                /\ SetsIn(section, line, n) => Says(Apply(c, section, line), n, line.value)
                /\ ~SetsIn(section, line, n) => Keeps(Apply(c, section, line), c, n)
<1> DEFINE a == Apply(c, section, line)
           E == section = "debug" /\ line.name = "enable" /\ line.value \in True \cup False
           T == section = "debug" /\ line.name = "trace"
<1>1. c.enabled \in BOOLEAN /\ c.trace \in Dir \cup {NoDir}
      /\ c = [enabled |-> c.enabled, trace |-> c.trace]
  BY DEF Conf
<1>2. SetsIn(section, line, "enable") <=> E
  BY DEF SetsIn, ValuesOf
<1>3. SetsIn(section, line, "trace") <=> T
  BY Settings DEF SetsIn, ValuesOf
<1>4. CASE E
  <2> DEFINE b == line.value \in True
  <2>1. a = [c EXCEPT !.enabled = b]
    BY <1>4 DEF Apply
  <2>2. b \in BOOLEAN /\ (b <=> line.value \in True)
    OBVIOUS
  <2> HIDE DEF a, b
  <2>3. a.enabled = b /\ a.trace = c.trace /\ a \in Conf
    BY <1>1, <2>1, <2>2 DEF Conf
  <2>4. ~T
    BY <1>4
  <2>5. Says(a, "enable", line.value) /\ Keeps(a, c, "trace")
    BY <2>2, <2>3 DEF Says, Keeps
  <2> QED BY <1>2, <1>3, <1>4, <2>3, <2>4, <2>5 DEF Key, a
<1>5. CASE T
  <2>1. ~E
    BY <1>5
  <2>2. a = [c EXCEPT !.trace = TraceDir(line.value)]
    BY <1>5, <2>1 DEF Apply
  <2>3. a.enabled = c.enabled /\ a.trace = TraceDir(line.value) /\ a \in Conf
    BY <1>1, <2>2, Settings, TraceDirIs DEF Conf
  <2> QED BY <1>2, <1>3, <1>5, <2>1, <2>3 DEF Key, Says, Keeps
<1>6. CASE ~E /\ ~T
  <2>1. a = c
    BY <1>6 DEF Apply
  <2> QED BY <1>2, <1>3, <1>6, <2>1 DEF Key, Says, Keeps
<1> QED BY <1>4, <1>5, <1>6

(* Where ipp_conf_load_file() is in a file.                                *)
ConfState == [conf : Conf, section : Section]

LEMMA LoadLineIs ==
    ASSUME NEW st \in ConfState, NEW line \in Line
    PROVE  /\ LoadLine(st, line) \in ConfState
           /\ LoadLine(st, line).section = IF line.kind = "section" THEN line.name ELSE st.section
           /\ \A n \in Key :
                /\ SetsIn(st.section, line, n) => Says(LoadLine(st, line).conf, n, line.value)
                /\ ~SetsIn(st.section, line, n) => Keeps(LoadLine(st, line).conf, st.conf, n)
<1> DEFINE new == LoadLine(st, line)
<1>1. st.conf \in Conf /\ st.section \in Section
  BY DEF ConfState
<1>2. CASE line.kind = "section"
  <2>1. new = [st EXCEPT !.section = line.name] /\ line.name \in Section
    BY <1>2 DEF LoadLine, Line
  <2>2. new \in ConfState /\ new.section = line.name /\ new.conf = st.conf
    BY <2>1 DEF ConfState
  <2>3. \A n \in Key : ~SetsIn(st.section, line, n)
    BY <1>2 DEF SetsIn
  <2> QED BY <1>2, <2>2, <2>3 DEF Keeps
<1>3. CASE line.kind = "setting"
  <2>1. new = [st EXCEPT !.conf = Apply(st.conf, st.section, line)]
    BY <1>3 DEF LoadLine
  <2>2. Apply(st.conf, st.section, line) \in Conf
    BY <1>1, <1>3, ApplyIs
  <2>3. /\ new \in ConfState /\ new.section = st.section
        /\ new.conf = Apply(st.conf, st.section, line)
    BY <2>1, <2>2 DEF ConfState
  <2> QED BY <1>1, <1>3, <2>3, ApplyIs
<1>4. CASE line.kind = "skipped"
  <2>1. new = st
    BY <1>4 DEF LoadLine
  <2>2. \A n \in Key : ~SetsIn(st.section, line, n)
    BY <1>4 DEF SetsIn
  <2> QED BY <1>4, <2>1, <2>2 DEF Keeps
<1>5. line.kind \in {"section", "setting", "skipped"}
  BY DEF Line
<1> QED BY <1>2, <1>3, <1>4, <1>5

(* The loop over the lines of a file, turn by turn.                        *)
LEMMA LinesLoop ==
    ASSUME NEW c \in Conf, NEW f \in Seq(Line)
    PROVE  /\ Lines(c, f)[0] = [conf |-> c, section |-> "none"]
           /\ \A i \in 1 .. Len(f) : Lines(c, f)[i] = LoadLine(Lines(c, f)[i - 1], f[i])
           /\ \A i \in 0 .. Len(f) : Lines(c, f)[i] \in ConfState
<1> DEFINE n == Len(f)
           S == ConfState
           a == [conf |-> c, section |-> "none"]
           g == [i \in 1 .. n |-> [st \in S |-> LoadLine(st, f[i])]]
           F(b) == b = [i \in 0 .. n |-> IF i = 0 THEN a ELSE LoadLine(b[i - 1], f[i])]
<1>1. n \in Nat /\ a \in S
  BY DEF ConfState, Section
<1>2. \A i \in 1 .. n : f[i] \in Line
  BY ElementOfSeq
<1>3. g \in [1 .. n -> [S -> S]]
  BY <1>2, LoadLineIs
<1>4. \A st \in S, i \in 1 .. n : g[i][st] = LoadLine(st, f[i])
  OBVIOUS
<1> HIDE DEF n, S, g, a
<1>5. PICK h \in Loops(S, a, n, g) : TRUE
  BY <1>1, <1>3, LoopsCompute
<1>6. h \in [0 .. n -> S] /\ h[0] = a
  BY DEF Loops
<1>7. \A i \in 1 .. n : h[i] = LoadLine(h[i - 1], f[i])
  <2> SUFFICES ASSUME NEW i \in 1 .. n PROVE h[i] = LoadLine(h[i - 1], f[i])
    OBVIOUS
  <2>1. i - 1 \in 0 .. n /\ h[i - 1] \in S
    BY <1>1, <1>6
  <2> QED BY <1>4, <2>1 DEF Loops
<1>8. F(h)
  BY <1>1, <1>6, <1>7
<1> DEFINE B == CHOOSE b : F(b)
<1>9. F(B)
  BY <1>8
<1>10. Lines(c, f) = B
  BY DEF Lines, n, a
<1> HIDE DEF B
<1>11. B[0] = a /\ \A i \in 1 .. n : B[i] = LoadLine(B[i - 1], f[i])
  BY <1>1, <1>9
<1>12. \A i \in 0 .. n : B[i] \in S
  <2> DEFINE T == {i \in 0 .. n : B[i] \in S}
  <2>1. 0 \in T
    BY <1>1, <1>11
  <2>2. \A i \in 1 .. n : i - 1 \in T => i \in T
    <3> SUFFICES ASSUME NEW i \in 1 .. n, i - 1 \in T PROVE B[i] \in S
      BY <1>1
    <3>1. B[i] = LoadLine(B[i - 1], f[i]) /\ B[i - 1] \in S
      BY <1>11
    <3>2. LoadLine(B[i - 1], f[i]) \in S
      BY <1>2, <3>1, LoadLineIs DEF S
    <3> QED BY <3>1, <3>2
  <2>3. \A i \in 0 .. n : i \in T
    <3> HIDE DEF T
    <3> QED BY <1>1, <2>1, <2>2, InductionUpTo
  <2> QED BY <2>3
<1> QED BY <1>10, <1>11, <1>12 DEF n, S, a

(* The section that the line after the first i is in.                      *)
LEMMA NextInDebug ==
    ASSUME NEW f \in Seq(Line), NEW i \in 1 .. Len(f)
    PROVE  InDebug(f, i + 1) <=> IF f[i].kind = "section" THEN f[i].name = "debug"
                                 ELSE InDebug(f, i)
<1>0. i \in Nat /\ i >= 1 /\ (i + 1) - 1 = i
  OBVIOUS
<1>1. CASE f[i].kind = "section"
  <2>1. ASSUME InDebug(f, i + 1) PROVE f[i].name = "debug"
    <3>1. PICK k \in 1 .. i :
              /\ f[k].kind = "section" /\ f[k].name = "debug"
              /\ \A n \in k + 1 .. i : f[n].kind # "section"
      BY <1>0, <2>1 DEF InDebug
    <3>2. k = i
      BY <1>0, <1>1, <3>1
    <3> QED BY <3>1, <3>2
  <2>2. ASSUME f[i].name = "debug" PROVE InDebug(f, i + 1)
    <3>1. i \in 1 .. i /\ \A n \in i + 1 .. i : FALSE
      BY <1>0
    <3> QED BY <1>0, <1>1, <2>2, <3>1 DEF InDebug
  <2> QED BY <1>1, <2>1, <2>2
<1>2. CASE f[i].kind # "section"
  <2>1. ASSUME InDebug(f, i + 1) PROVE InDebug(f, i)
    <3>1. PICK k \in 1 .. i :
              /\ f[k].kind = "section" /\ f[k].name = "debug"
              /\ \A n \in k + 1 .. i : f[n].kind # "section"
      BY <1>0, <2>1 DEF InDebug
    <3>2. k \in 1 .. i - 1 /\ \A n \in k + 1 .. i - 1 : n \in k + 1 .. i
      BY <1>0, <1>2, <3>1
    <3> QED BY <3>1, <3>2 DEF InDebug
  <2>2. ASSUME InDebug(f, i) PROVE InDebug(f, i + 1)
    <3>1. PICK k \in 1 .. i - 1 :
              /\ f[k].kind = "section" /\ f[k].name = "debug"
              /\ \A n \in k + 1 .. i - 1 : f[n].kind # "section"
      BY <2>2 DEF InDebug
    <3>2. k \in 1 .. i /\ \A n \in k + 1 .. i : n = i \/ n \in k + 1 .. i - 1
      BY <1>0
    <3>3. \A n \in k + 1 .. i : f[n].kind # "section"
      BY <1>2, <3>1, <3>2
    <3> QED BY <1>0, <3>1, <3>2, <3>3 DEF InDebug
  <2> QED BY <1>2, <2>1, <2>2
<1> QED BY <1>1, <1>2

(* The loop knows in which section it is.                                  *)
LEMMA SectionIs ==
    ASSUME NEW c \in Conf, NEW f \in Seq(Line)
    PROVE  \A i \in 0 .. Len(f) : Lines(c, f)[i].section = "debug" <=> InDebug(f, i + 1)
<1> DEFINE n == Len(f)
           L == Lines(c, f)
           T == {i \in 0 .. n : L[i].section = "debug" <=> InDebug(f, i + 1)}
<1>0. /\ L[0] = [conf |-> c, section |-> "none"]
      /\ \A i \in 1 .. Len(f) : L[i] = LoadLine(L[i - 1], f[i])
      /\ \A i \in 0 .. Len(f) : L[i] \in ConfState
  BY LinesLoop, Zenon
<1> HIDE DEF L
<1>1. n \in Nat
  OBVIOUS
<1>2. 0 \in T
  <2>1. L[0].section = "none"
    BY <1>0
  <2>2. ~InDebug(f, 0 + 1)
    BY DEF InDebug
  <2> QED BY <1>1, <2>1, <2>2
<1>3. ASSUME NEW i \in 1 .. n, i - 1 \in T PROVE i \in T
  <2>1. L[i] = LoadLine(L[i - 1], f[i]) /\ L[i - 1] \in ConfState /\ f[i] \in Line
    BY <1>0, <1>1, ElementOfSeq
  <2>2. L[i].section = IF f[i].kind = "section" THEN f[i].name ELSE L[i - 1].section
    BY <2>1, LoadLineIs
  <2>3. L[i - 1].section = "debug" <=> InDebug(f, i)
    BY <1>3
  <2>4. L[i].section = "debug" <=> InDebug(f, i + 1)
    BY <2>2, <2>3, NextInDebug
  <2> QED BY <1>1, <2>4
<1> HIDE DEF T
<1>4. \A i \in 0 .. n : i \in T
  BY <1>1, <1>2, <1>3, InductionUpTo
<1> QED BY <1>4 DEF T, L

(* What the first i lines of a file make of a key of c0.                   *)
LineDecides(c1, c0, f, i, n) ==
    \/ (\A j \in 1 .. i : ~Sets(f, j, n)) /\ Keeps(c1, c0, n)
    \/ \E j \in 1 .. i :
        /\ Sets(f, j, n) /\ Says(c1, n, f[j].value)
        /\ \A k \in 1 .. i : Sets(f, k, n) => k <= j

LEMMA OneMoreLine ==
    ASSUME NEW c0, NEW c1, NEW c2, NEW f, NEW i \in Nat, i > 0, NEW n \in Key,
           LineDecides(c1, c0, f, i - 1, n),
           Sets(f, i, n) => Says(c2, n, f[i].value),
           ~Sets(f, i, n) => Keeps(c2, c1, n)
    PROVE  LineDecides(c2, c0, f, i, n)
<1>0. i \in 1 .. i /\ \A j \in 1 .. i : j = i \/ j \in 1 .. i - 1
  OBVIOUS
<1>1. CASE Sets(f, i, n)
  <2>1. \A k \in 1 .. i : k <= i
    OBVIOUS
  <2> QED BY <1>0, <1>1, <2>1 DEF LineDecides
<1>2. CASE ~Sets(f, i, n)
  <2>1. CASE (\A j \in 1 .. i - 1 : ~Sets(f, j, n)) /\ Keeps(c1, c0, n)
    <3>1. \A j \in 1 .. i : ~Sets(f, j, n)
      BY <1>0, <1>2, <2>1
    <3>2. Keeps(c2, c0, n)
      BY <1>2, <2>1 DEF Keeps
    <3> QED BY <3>1, <3>2 DEF LineDecides
  <2>2. ASSUME NEW j \in 1 .. i - 1, Sets(f, j, n), Says(c1, n, f[j].value),
               \A k \in 1 .. i - 1 : Sets(f, k, n) => k <= j
        PROVE  LineDecides(c2, c0, f, i, n)
    <3>1. Says(c2, n, f[j].value)
      BY <1>2, <2>2 DEF Says, Keeps
    <3>2. j \in 1 .. i /\ \A k \in 1 .. i : Sets(f, k, n) => k <= j
      BY <1>0, <1>2, <2>2
    <3> QED BY <2>2, <3>1, <3>2 DEF LineDecides
  <2> QED BY <2>1, <2>2 DEF LineDecides
<1> QED BY <1>1, <1>2

(* A file sets what its last setting of a key says, and leaves the keys    *)
(* that it does not have.                                                  *)
LEMMA FileDecides ==
    ASSUME NEW c \in Conf, NEW f \in Seq(Line)
    PROVE  /\ LoadFile(c, f) \in Conf
           /\ \A n \in Key : LineDecides(LoadFile(c, f), c, f, Len(f), n)
<1> DEFINE m == Len(f)
           L == Lines(c, f)
<1>0. /\ L[0] = [conf |-> c, section |-> "none"]
      /\ \A i \in 1 .. Len(f) : L[i] = LoadLine(L[i - 1], f[i])
      /\ \A i \in 0 .. Len(f) : L[i] \in ConfState
  BY LinesLoop, Zenon
<1>S. \A i \in 0 .. m : L[i].section = "debug" <=> InDebug(f, i + 1)
  BY SectionIs, Zenon
<1> HIDE DEF L
<1>1. m \in Nat
  OBVIOUS
<1>2. ASSUME NEW n \in Key PROVE LineDecides(L[m].conf, c, f, m, n)
  <2> DEFINE T == {i \in 0 .. m : LineDecides(L[i].conf, c, f, i, n)}
  <2>1. 0 \in T
    <3>1. L[0].conf = c
      BY <1>0
    <3>2. Keeps(L[0].conf, c, n)
      BY <3>1 DEF Keeps
    <3>3. LineDecides(L[0].conf, c, f, 0, n)
      BY <3>2 DEF LineDecides
    <3> QED BY <1>1, <3>3
  <2>2. ASSUME NEW i \in 1 .. m, i - 1 \in T PROVE i \in T
    <3>1. L[i] = LoadLine(L[i - 1], f[i]) /\ L[i - 1] \in ConfState /\ f[i] \in Line
      BY <1>0, <1>1, ElementOfSeq
    <3>2. i - 1 \in 0 .. m /\ (i - 1) + 1 = i
      BY <1>1
    <3>3. L[i - 1].section = "debug" <=> InDebug(f, i)
      BY <1>S, <3>2
    <3>4. SetsIn(L[i - 1].section, f[i], n) <=> Sets(f, i, n)
      BY <3>3 DEF SetsIn, Sets
    <3>5. /\ Sets(f, i, n) => Says(L[i].conf, n, f[i].value)
          /\ ~Sets(f, i, n) => Keeps(L[i].conf, L[i - 1].conf, n)
      BY <3>1, <3>4, LoadLineIs
    <3>6. LineDecides(L[i - 1].conf, c, f, i - 1, n) /\ i \in Nat /\ i > 0
      BY <1>1, <2>2
    <3>7. LineDecides(L[i].conf, c, f, i, n)
      BY <3>5, <3>6, OneMoreLine
    <3> QED BY <1>1, <3>7
  <2> HIDE DEF T
  <2>3. \A i \in 0 .. m : i \in T
    BY <1>1, <2>1, <2>2, InductionUpTo
  <2>4. m \in T
    BY <1>1, <2>3
  <2> QED BY <2>4 DEF T
<1>3. L[m] \in ConfState
  BY <1>0, <1>1
<1> QED BY <1>2, <1>3 DEF LoadFile, ConfState, L

(* The loop over the files, turn by turn.                                  *)
LEMMA FilesLoop ==
    ASSUME NEW fs \in Seq(Seq(Line))
    PROVE  /\ FilesInTurn(fs)[0] = NoConf
           /\ \A i \in 1 .. Len(fs) : FilesInTurn(fs)[i] = LoadFile(FilesInTurn(fs)[i - 1], fs[i])
           /\ \A i \in 0 .. Len(fs) : FilesInTurn(fs)[i] \in Conf
<1> DEFINE n == Len(fs)
           S == Conf
           g == [i \in 1 .. n |-> [c \in S |-> LoadFile(c, fs[i])]]
           F(b) == b = [i \in 0 .. n |-> IF i = 0 THEN NoConf ELSE LoadFile(b[i - 1], fs[i])]
<1>1. n \in Nat /\ NoConf \in S
  BY NoConfIs
<1>2. \A i \in 1 .. n : fs[i] \in Seq(Line)
  BY ElementOfSeq
<1>3. g \in [1 .. n -> [S -> S]]
  BY <1>2, FileDecides
<1>4. \A c \in S, i \in 1 .. n : g[i][c] = LoadFile(c, fs[i])
  OBVIOUS
<1> HIDE DEF n, S, g
<1>5. PICK h \in Loops(S, NoConf, n, g) : TRUE
  BY <1>1, <1>3, LoopsCompute
<1>6. h \in [0 .. n -> S] /\ h[0] = NoConf
  BY DEF Loops
<1>7. \A i \in 1 .. n : h[i] = LoadFile(h[i - 1], fs[i])
  <2> SUFFICES ASSUME NEW i \in 1 .. n PROVE h[i] = LoadFile(h[i - 1], fs[i])
    OBVIOUS
  <2>1. i - 1 \in 0 .. n /\ h[i - 1] \in S
    BY <1>1, <1>6
  <2> QED BY <1>4, <2>1 DEF Loops
<1>8. F(h)
  BY <1>1, <1>6, <1>7
<1> DEFINE B == CHOOSE b : F(b)
<1>9. F(B)
  BY <1>8
<1>10. FilesInTurn(fs) = B
  BY DEF FilesInTurn, n
<1> HIDE DEF B
<1>11. B[0] = NoConf /\ \A i \in 1 .. n : B[i] = LoadFile(B[i - 1], fs[i])
  BY <1>1, <1>9
<1>12. \A i \in 0 .. n : B[i] \in S
  <2> DEFINE T == {i \in 0 .. n : B[i] \in S}
  <2>1. 0 \in T
    BY <1>1, <1>11
  <2>2. \A i \in 1 .. n : i - 1 \in T => i \in T
    <3> SUFFICES ASSUME NEW i \in 1 .. n, i - 1 \in T PROVE B[i] \in S
      BY <1>1
    <3>1. B[i] = LoadFile(B[i - 1], fs[i]) /\ B[i - 1] \in S
      BY <1>11
    <3>2. LoadFile(B[i - 1], fs[i]) \in S
      BY <1>2, <3>1, FileDecides DEF S
    <3> QED BY <3>1, <3>2
  <2>3. \A i \in 0 .. n : i \in T
    <3> HIDE DEF T
    <3> QED BY <1>1, <2>1, <2>2, InductionUpTo
  <2> QED BY <2>3
<1> QED BY <1>10, <1>11, <1>12 DEF n, S

(* Line j of file a is not before line k of file b.                        *)
NotBefore(a, j, b, k) == b < a \/ (b = a /\ k <= j)

(* The first i files set a key to what their last setting of it says.      *)
FilesDecide(c, fs, i, n) ==
    \/ /\ \A a \in 1 .. i : \A j \in 1 .. Len(fs[a]) : ~Sets(fs[a], j, n)
       /\ Keeps(c, NoConf, n)
    \/ \E a \in 1 .. i : \E j \in 1 .. Len(fs[a]) :
        /\ Sets(fs[a], j, n) /\ Says(c, n, fs[a][j].value)
        /\ \A b \in 1 .. i : \A k \in 1 .. Len(fs[b]) :
            Sets(fs[b], k, n) => NotBefore(a, j, b, k)

LEMMA OneMoreFile ==
    ASSUME NEW c1, NEW c2, NEW fs, NEW i \in Nat, i > 0, NEW n \in Key,
           Len(fs[i]) \in Nat,
           FilesDecide(c1, fs, i - 1, n),
           LineDecides(c2, c1, fs[i], Len(fs[i]), n)
    PROVE  FilesDecide(c2, fs, i, n)
<1>0. i \in 1 .. i /\ \A a \in 1 .. i : a = i \/ (a \in 1 .. i - 1 /\ a < i)
  OBVIOUS
<1>1. ASSUME NEW j \in 1 .. Len(fs[i]), Sets(fs[i], j, n), Says(c2, n, fs[i][j].value),
             \A k \in 1 .. Len(fs[i]) : Sets(fs[i], k, n) => k <= j
      PROVE  FilesDecide(c2, fs, i, n)
  <2>1. \A b \in 1 .. i : \A k \in 1 .. Len(fs[b]) : Sets(fs[b], k, n) => NotBefore(i, j, b, k)
    BY <1>0, <1>1 DEF NotBefore
  <2> QED BY <1>0, <1>1, <2>1 DEF FilesDecide
<1>2. CASE (\A j \in 1 .. Len(fs[i]) : ~Sets(fs[i], j, n)) /\ Keeps(c2, c1, n)
  <2>1. CASE /\ \A a \in 1 .. i - 1 : \A j \in 1 .. Len(fs[a]) : ~Sets(fs[a], j, n)
             /\ Keeps(c1, NoConf, n)
    <3>1. \A a \in 1 .. i : \A j \in 1 .. Len(fs[a]) : ~Sets(fs[a], j, n)
      BY <1>0, <1>2, <2>1
    <3>2. Keeps(c2, NoConf, n)
      BY <1>2, <2>1 DEF Keeps
    <3> QED BY <3>1, <3>2 DEF FilesDecide
  <2>2. ASSUME NEW a \in 1 .. i - 1, NEW j \in 1 .. Len(fs[a]),
               Sets(fs[a], j, n), Says(c1, n, fs[a][j].value),
               \A b \in 1 .. i - 1 : \A k \in 1 .. Len(fs[b]) :
                    Sets(fs[b], k, n) => NotBefore(a, j, b, k)
        PROVE  FilesDecide(c2, fs, i, n)
    <3>1. Says(c2, n, fs[a][j].value)
      BY <1>2, <2>2 DEF Says, Keeps
    <3>2. a \in 1 .. i
      OBVIOUS
    <3>3. \A b \in 1 .. i : \A k \in 1 .. Len(fs[b]) : Sets(fs[b], k, n) => NotBefore(a, j, b, k)
      BY <1>0, <1>2, <2>2
    <3> QED BY <2>2, <3>1, <3>2, <3>3 DEF FilesDecide
  <2> QED BY <2>1, <2>2 DEF FilesDecide
<1> QED BY <1>1, <1>2 DEF LineDecides

LEMMA FilesDecideAll ==
    ASSUME NEW fs \in Seq(Seq(Line))
    PROVE  /\ ConfLoad(fs) \in Conf
           /\ \A n \in Key : FilesDecide(ConfLoad(fs), fs, Len(fs), n)
<1> DEFINE m == Len(fs)
           C == FilesInTurn(fs)
<1>0. /\ C[0] = NoConf
      /\ \A i \in 1 .. Len(fs) : C[i] = LoadFile(C[i - 1], fs[i])
      /\ \A i \in 0 .. Len(fs) : C[i] \in Conf
  BY FilesLoop, Zenon
<1> HIDE DEF C
<1>1. m \in Nat
  OBVIOUS
<1>2. ASSUME NEW n \in Key PROVE FilesDecide(C[m], fs, m, n)
  <2> DEFINE T == {i \in 0 .. m : FilesDecide(C[i], fs, i, n)}
  <2>1. 0 \in T
    <3>1. Keeps(C[0], NoConf, n)
      BY <1>0 DEF Keeps
    <3>2. FilesDecide(C[0], fs, 0, n)
      BY <3>1 DEF FilesDecide
    <3> QED BY <1>1, <3>2
  <2>2. ASSUME NEW i \in 1 .. m, i - 1 \in T PROVE i \in T
    <3>1. C[i] = LoadFile(C[i - 1], fs[i]) /\ C[i - 1] \in Conf /\ fs[i] \in Seq(Line)
      BY <1>0, <1>1, ElementOfSeq
    <3>2. LineDecides(C[i], C[i - 1], fs[i], Len(fs[i]), n) /\ Len(fs[i]) \in Nat
      BY <3>1, FileDecides
    <3>3. FilesDecide(C[i - 1], fs, i - 1, n) /\ i \in Nat /\ i > 0
      BY <1>1, <2>2
    <3>4. FilesDecide(C[i], fs, i, n)
      BY <3>2, <3>3, OneMoreFile
    <3> QED BY <1>1, <3>4
  <2> HIDE DEF T
  <2>3. \A i \in 0 .. m : i \in T
    BY <1>1, <2>1, <2>2, InductionUpTo
  <2>4. m \in T
    BY <1>1, <2>3
  <2> QED BY <2>4 DEF T
<1>3. C[m] \in Conf
  BY <1>0, <1>1
<1> QED BY <1>2, <1>3 DEF ConfLoad, C

(* Where a key is given a value.                                           *)
LEMMA GivenIs ==
    ASSUME NEW fs \in Seq(Seq(Line)), NEW n \in Key
    PROVE  \A p : p \in Given(fs, n, ValuesOf(n)) <=>
                    \E a \in 1 .. Len(fs) : \E j \in 1 .. Len(fs[a]) :
                        p = <<a, j>> /\ Sets(fs[a], j, n)
<1>1. DOMAIN fs = 1 .. Len(fs) /\ \A a \in 1 .. Len(fs) : DOMAIN fs[a] = 1 .. Len(fs[a])
  <2>1. \A a \in 1 .. Len(fs) : fs[a] \in Seq(Line)
    BY ElementOfSeq
  <2> QED BY <2>1, LenProperties
<1>2. \A p : p \in UNION {{f} \X DOMAIN fs[f] : f \in DOMAIN fs} <=>
                \E a \in 1 .. Len(fs) : \E j \in 1 .. Len(fs[a]) : p = <<a, j>>
  BY <1>1
<1> QED BY <1>2 DEF Given, Sets

(* The last of them is the one that the program was left with.             *)
LEMMA LastIs ==
    ASSUME NEW fs \in Seq(Seq(Line)), NEW n \in Key,
           NEW a \in 1 .. Len(fs), NEW j \in 1 .. Len(fs[a]), Sets(fs[a], j, n),
           \A b \in 1 .. Len(fs) : \A k \in 1 .. Len(fs[b]) :
                Sets(fs[b], k, n) => NotBefore(a, j, b, k)
    PROVE  /\ Given(fs, n, ValuesOf(n)) # {}
           /\ LastGiven(fs, n, ValuesOf(n)) = fs[a][j].value
<1> DEFINE G == Given(fs, n, ValuesOf(n))
           P(p) == \A q \in G : q[1] < p[1] \/ (q[1] = p[1] /\ q[2] <= p[2])
           r == CHOOSE p \in G : P(p)
<1>1. \A p : p \in G <=> \E b \in 1 .. Len(fs) : \E k \in 1 .. Len(fs[b]) :
                            p = <<b, k>> /\ Sets(fs[b], k, n)
  BY GivenIs, Zenon
<1>2. LastGiven(fs, n, ValuesOf(n)) = fs[r[1]][r[2]].value
  BY DEF LastGiven
<1> HIDE DEF G
<1>3. \A b \in 1 .. Len(fs) : fs[b] \in Seq(Line) /\ Len(fs[b]) \in Nat
  BY ElementOfSeq
<1>4. <<a, j>> \in G
  BY <1>1
<1>5. P(<<a, j>>)
  BY <1>1 DEF NotBefore
<1>6. r \in G /\ P(r)
  BY <1>4, <1>5
<1> HIDE DEF r
<1>7. PICK b \in 1 .. Len(fs) : \E k \in 1 .. Len(fs[b]) : r = <<b, k>>
  BY <1>1, <1>6
<1>k. PICK k \in 1 .. Len(fs[b]) : r = <<b, k>>
  BY <1>7
<1>8. a < b \/ (a = b /\ j <= k)
  BY <1>4, <1>6, <1>k
<1>9. b < a \/ (b = a /\ k <= j)
  BY <1>5, <1>6, <1>k
<1>10. a \in Int /\ b \in Int /\ j \in Int /\ k \in Int
  BY <1>3
<1>11. a = b /\ j = k
  BY <1>8, <1>9, <1>10
<1> QED BY <1>2, <1>4, <1>k, <1>11 DEF G

(* However the files lie, the program has what they say last.              *)
LEMMA ConfLoadIsAsWritten ==
    ASSUME NEW fs \in Seq(Seq(Line))
    PROVE  ConfLoad(fs) \in Conf /\ ConfLoad(fs) = AsWritten(fs)
<1> DEFINE c == ConfLoad(fs)
           w == AsWritten(fs)
           E == Given(fs, "enable", True \cup False)
           T == Given(fs, "trace", Word)
<1>1. c \in Conf /\ \A n \in Key : FilesDecide(c, fs, Len(fs), n)
  BY FilesDecideAll
<1>2. "enable" \in Key /\ "trace" \in Key
      /\ ValuesOf("enable") = True \cup False /\ ValuesOf("trace") = Word
  BY DEF Key, ValuesOf
<1>3. w.enabled <=> E # {} /\ LastGiven(fs, "enable", True \cup False) \in True
  BY DEF AsWritten
<1>4. w.trace = IF T = {} THEN NoDir ELSE TraceDir(LastGiven(fs, "trace", Word))
  BY DEF AsWritten, TraceDir
<1>5. w = [enabled |-> w.enabled, trace |-> w.trace] /\ w.enabled \in BOOLEAN
  BY DEF AsWritten
<1> HIDE DEF c, w
<1>6. c.enabled <=> w.enabled
  <2>1. CASE /\ \A a \in 1 .. Len(fs) : \A j \in 1 .. Len(fs[a]) : ~Sets(fs[a], j, "enable")
             /\ Keeps(c, NoConf, "enable")
    <3>1. E = {}
      BY <1>2, <2>1, GivenIs
    <3>2. c.enabled = FALSE
      BY <2>1, NoConfIs DEF Keeps
    <3> QED BY <1>3, <3>1, <3>2
  <2>2. ASSUME NEW a \in 1 .. Len(fs), NEW j \in 1 .. Len(fs[a]),
               Sets(fs[a], j, "enable"), Says(c, "enable", fs[a][j].value),
               \A b \in 1 .. Len(fs) : \A k \in 1 .. Len(fs[b]) :
                    Sets(fs[b], k, "enable") => NotBefore(a, j, b, k)
        PROVE  c.enabled <=> w.enabled
    <3>0. /\ Given(fs, "enable", ValuesOf("enable")) # {}
          /\ LastGiven(fs, "enable", ValuesOf("enable")) = fs[a][j].value
      BY <1>2, <2>2, LastIs, Zenon
    <3>1. E # {} /\ LastGiven(fs, "enable", True \cup False) = fs[a][j].value
      BY <1>2, <3>0
    <3>2. c.enabled <=> fs[a][j].value \in True
      BY <2>2 DEF Says
    <3> QED BY <1>3, <3>1, <3>2
  <2> QED BY <1>1, <1>2, <2>1, <2>2 DEF FilesDecide
<1>7. c.trace = w.trace
  <2>1. CASE /\ \A a \in 1 .. Len(fs) : \A j \in 1 .. Len(fs[a]) : ~Sets(fs[a], j, "trace")
             /\ Keeps(c, NoConf, "trace")
    <3>1. T = {}
      BY <1>2, <2>1, GivenIs
    <3>2. c.trace = NoDir
      BY <2>1, NoConfIs DEF Keeps
    <3> QED BY <1>4, <3>1, <3>2
  <2>2. ASSUME NEW a \in 1 .. Len(fs), NEW j \in 1 .. Len(fs[a]),
               Sets(fs[a], j, "trace"), Says(c, "trace", fs[a][j].value),
               \A b \in 1 .. Len(fs) : \A k \in 1 .. Len(fs[b]) :
                    Sets(fs[b], k, "trace") => NotBefore(a, j, b, k)
        PROVE  c.trace = w.trace
    <3>1. T # {} /\ LastGiven(fs, "trace", Word) = fs[a][j].value
      BY <1>2, <2>2, LastIs
    <3>2. c.trace = TraceDir(fs[a][j].value)
      BY <2>2 DEF Says
    <3> QED BY <1>4, <3>1, <3>2
  <2> QED BY <1>1, <1>2, <2>1, <2>2 DEF FilesDecide
<1>8. c = [enabled |-> c.enabled, trace |-> c.trace] /\ c.enabled \in BOOLEAN
  BY <1>1 DEF Conf
<1>9. c.enabled = w.enabled
  BY <1>5, <1>6, <1>8
<1>10. c = w
  BY <1>5, <1>7, <1>8, <1>9
<1> QED BY <1>1, <1>10 DEF c, w

(* Of the files of configuration the last that has a setting decides, and  *)
(* the environment has the last word (ipp-conf.h, 10-12; ipp-log.c,        *)
(* 174-176), whatever files there are.                                     *)
THEOREM TheLastSettingDecides == Spec => SettingsDecide
<1>1. \A f \in Files : f \in Seq(Seq(Line))
  BY LogAssumption DEF LogAssumption
<1>2. \A f \in Files : Loaded[f] = Written[f]
  BY <1>1, ConfLoadIsAsWritten DEF Loaded, Written
<1>3. [Next]_vars => [~initialized /\ initialized' =>
        \A f \in Files, e \in Env \cup {NoEnv} : LogInit(f, e) =>
            /\ conf' = Written[f]
            /\ e = NoEnv => level' = IF Written[f].enabled THEN Debug ELSE 0
            /\ e # NoEnv => level' = ParseLevel(e)]_vars
  <2> SUFFICES ASSUME NEW f \in Files, NEW e \in Env \cup {NoEnv}, LogInit(f, e)
               PROVE  /\ conf' = Written[f]
                      /\ e = NoEnv => level' = IF Written[f].enabled THEN Debug ELSE 0
                      /\ e # NoEnv => level' = ParseLevel(e)
    OBVIOUS
  <2>1. conf' = Written[f]
    BY <1>2 DEF LogInit
  <2>2. ASSUME e = NoEnv PROVE level' = IF conf'.enabled THEN Debug ELSE 0
    BY <2>2 DEF LogInit
  <2>3. e # NoEnv => level' = ParseLevel(e)
    BY DEF LogInit
  <2> QED BY <2>1, <2>2, <2>3
<1> QED BY <1>3, PTL DEF Spec, SettingsDecide

(* Every variable stays in range, whatever the files say and the threads   *)
(* do.                                                                     *)
ScalarInv == initialized \in BOOLEAN /\ level \in Level \cup {0} /\ conf \in Conf /\ calls \in Nat

LEMMA ParseLevelIs ==
    ASSUME NEW e, e.number \in Int
    PROVE  ParseLevel(e) \in Level \cup {0}
<1>1. 0 .. Trace = Level \cup {0} /\ 0 \in Level \cup {0} /\ Debug \in Level /\ Trace \in Level
  BY DEF Level, Debug, Trace
<1>2. ParseLevel(e) \in {0, Debug, Trace} \/ ParseLevel(e) \in 0 .. Trace
  BY Zenon DEF ParseLevel
<1> QED BY <1>1, <1>2

LEMMA ScalarStep == ScalarInv /\ [Next]_vars => ScalarInv'
<1> SUFFICES ASSUME ScalarInv, [Next]_vars PROVE ScalarInv'
  OBVIOUS
<1>1. ASSUME NEW f \in Files, NEW e \in Env \cup {NoEnv}, LogInit(f, e) PROVE ScalarInv'
  <2>1. initialized' = TRUE /\ conf' = Loaded[f] /\ UNCHANGED calls
    BY <1>1 DEF LogInit, loc
  <2>2. conf' \in Conf
    BY <2>1, LogAssumption, ConfLoadIsAsWritten DEF LogAssumption, Loaded
  <2>3. level' \in Level \cup {0}
    <3>1. CASE e = NoEnv
      BY <1>1, <3>1 DEF LogInit, Level, Debug
    <3>2. CASE e # NoEnv
      <4>1. e.number \in Int /\ level' = ParseLevel(e)
        BY <1>1, <3>2, LogAssumption DEF LogAssumption, LogInit
      <4> QED BY <4>1, ParseLevelIs
    <3> QED BY <3>1, <3>2
  <2> QED BY <2>1, <2>2, <2>3 DEF ScalarInv
<1>2. ASSUME NEW l \in Level, SetLevel(l) PROVE ScalarInv'
  BY <1>2 DEF SetLevel, ScalarInv, loc
<1>3. CASE LogExit
  <2>1. conf' = [conf EXCEPT !.trace = NoDir] /\ initialized' = FALSE /\ UNCHANGED <<level, calls>>
    BY <1>3 DEF LogExit, loc
  <2>2. conf' \in Conf
    BY <2>1 DEF ScalarInv, Conf
  <2> QED BY <2>1, <2>2 DEF ScalarInv
<1>4. ASSUME NEW t \in Thread,
             \/ \E l \in Level : Log(t, l)
             \/ \E d \in Device : TraceOpen(t, d)
             \/ TraceClose(t)
      PROVE  ScalarInv'
  <2>1. calls' = calls + 1 /\ UNCHANGED ctl
    BY <1>4 DEF Log, TraceOpen, TraceClose, Call
  <2> QED BY <2>1 DEF ScalarInv, ctl
<1>5. ASSUME NEW t \in Thread,
             \/ Lock(t) \/ Unlock(t) \/ TestFile(t) \/ WriteLine(t)
             \/ Footer(t) \/ Fclose(t) \/ Fopen(t) \/ Header(t)
      PROVE  ScalarInv'
  <2>1. UNCHANGED <<ctl, calls>>
    BY <1>5 DEF Lock, Unlock, TestFile, WriteLine, Footer, Fclose, Fopen, Header, loc
  <2> QED BY <2>1 DEF ScalarInv, ctl
<1>6. CASE UNCHANGED vars
  BY <1>6 DEF vars, ctl, loc, ScalarInv
<1> QED BY <1>1, <1>2, <1>3, <1>4, <1>5, <1>6 DEF Next

THEOREM LogTypeCorrect == Spec => []TypeOK
<1>1. Init => ScalarInv
  <2> SUFFICES ASSUME Init PROVE ScalarInv
    OBVIOUS
  <2>1. initialized = FALSE /\ level = 0 /\ conf = NoConf /\ calls = 0
    BY DEF Init
  <2>2. initialized \in BOOLEAN
    BY <2>1
  <2> QED BY <2>1, <2>2, NoConfIs DEF ScalarInv
<1>2. IInv /\ ScalarInv => TypeOK
  BY DEF IInv, LogType, MutexInv, OpensADevice, ScalarInv, TypeOK
<1> QED BY <1>1, <1>2, ScalarStep, LogInit0, LogStep, PTL DEF Spec
=============================================================================
