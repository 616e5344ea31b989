--------------------------- MODULE RecorderProofs ---------------------------
(***************************************************************************)
(* The safety of the recorder for every configuration: any mp4_length, any *)
(* number of skipped packets, any folder, any pattern of failed creations; *)
(* that it implements Recording; and which recordings the end of a process *)
(* costs, after any number of restarts.                                    *)
(*                                                                         *)
(* No property is inductive alone.  That a closed file is full needs the   *)
(* number of key frames of the open one as a function of the counter and   *)
(* of where the thread is; that no call uses a closed handle needs the     *)
(* locations at which hMP4File dangles, which lie between MP4Close and     *)
(* MP4CreateEx.  IInv says both.                                           *)
(***************************************************************************)
EXTENDS RecorderShutdown, FiniteSetTheorems, TLAPS

(* Where hMP4File dangles, where a rotation has not created its file yet,  *)
(* and where the new file still waits for its first sample.                *)
Dangling == {"count", "find", "remove", "create", "crashed"}
Rotating == Dangling \cup {"closeTest", "close"}
Preparing == {"track", "params"}

Control ==
    /\ handle # NoFile => handle = tries
    /\ spsflag \/ pc \in Preparing => tries > 0
    /\ tries > 0 => spsflag \/ pc = "track"
    /\ pc \in {"params", "writeSync"} => spsflag
    /\ pc \in {"idle", "writeSync", "writeDelta"} => gops < Length
    /\ pc \in {"closeTest", "close"} /\ spsflag => gops = Length
    /\ pc = "close" => handle # NoFile
    /\ pc \in Rotating => tries < MaxSegments
    /\ ~misused

(* Segments no MP4CreateEx was called for yet.                             *)
Unborn ==
    \A s \in Segments : s > tries =>
        /\ status[s] = "none" /\ samples[s] = 0 /\ syncs[s] = 0
        /\ offered[s] = (IF s = tries + 1 /\ pc \in Rotating THEN 1 ELSE 0)

Past ==
    \A s \in Segments : s <= tries /\ s # handle =>
        status[s] \in {"closed", "failed"}

Finished ==
    \A s \in Segments : status[s] = "closed" =>
        samples[s] = offered[s] /\ syncs[s] = Length

Current ==
    /\ handle = NoFile /\ tries > 0 => status[tries] = "failed"
    /\ handle # NoFile =>
           /\ pc \in Dangling => status[handle] = "closed"
           /\ pc \notin Dangling => status[handle] = "open"
           /\ pc # "track" => track
           /\ pc \in {"idle", "closeTest", "close"} =>
                  samples[handle] = offered[handle]
           /\ pc \in {"idle", "closeTest", "close", "writeDelta"} =>
                  samples[handle] > 0
           /\ pc \in {"writeSync", "writeDelta"} \cup Preparing =>
                  offered[handle] = samples[handle] + 1
           /\ pc \in Preparing =>
                  samples[handle] = 0 /\ syncs[handle] = 0
           /\ pc \in {"idle", "writeDelta"} => syncs[handle] = gops + 1
           /\ pc \in {"closeTest", "close", "writeSync"} => syncs[handle] = gops

IInv == TypeOK /\ Control /\ Unborn /\ Past /\ Finished /\ Current /\ KeyFrameFirst

-----------------------------------------------------------------------------
(* Each action preserves the invariant.                                    *)

LEMMA FolderTypeKept ==
    ASSUME FolderTypeOK, UNCHANGED <<files, born>>
    PROVE  FolderTypeOK'
BY DEF FolderTypeOK, Segments, NoFile

LEMMA PassFrameStep ==
    ASSUME IInv, PassFrame
    PROVE  IInv'
<1> USE RecorderAssumption DEF IInv, Segments, NoFile
<1>1. TypeOK'
    BY FolderTypeKept DEF TypeOK, Control, PassFrame,
       Statuses, Locations, Length, Dangling, Rotating, Preparing, library, stored
<1>2. Control'
    BY DEF TypeOK, Control, Current, PassFrame,
       Statuses, Locations, Length, Dangling, Rotating, Preparing, library, stored
<1>3. Unborn'
    BY DEF TypeOK, Control, Unborn, PassFrame,
       Statuses, Locations, Length, Dangling, Rotating, Preparing, library, stored
<1>4. Past'
    BY DEF TypeOK, Control, Past, Current, PassFrame,
       Statuses, Locations, Length, Dangling, Rotating, Preparing, library, stored
<1>5. Finished'
    BY DEF TypeOK, Control, Finished, Current, PassFrame,
       Statuses, Locations, Length, Dangling, Rotating, Preparing, library, stored
<1>6. Current'
    BY DEF TypeOK, Control, Unborn, Current, PassFrame,
       Statuses, Locations, Length, Dangling, Rotating, Preparing, library, stored
<1>7. KeyFrameFirst'
    BY DEF TypeOK, KeyFrameFirst, PassFrame,
       Statuses, Locations, Length, Dangling, Rotating, Preparing, library, stored
<1> QED
    BY <1>1, <1>2, <1>3, <1>4, <1>5, <1>6, <1>7

LEMMA RotatingIdrStep ==
    ASSUME IInv, RotatingIdr
    PROVE  IInv'
<1> USE RecorderAssumption DEF IInv, Segments, NoFile
<1>1. TypeOK'
  <2>1. offered' \in [Segments -> Nat]
      BY DEF TypeOK, RotatingIdr, Offer
  <2>2. gops' \in Nat /\ pc' \in Locations
      BY DEF TypeOK, RotatingIdr, Locations
  <2> QED
      BY <2>1, <2>2, FolderTypeKept DEF TypeOK, RotatingIdr, library
<1>2. Control'
    BY DEF TypeOK, Control, Current, RotatingIdr, Offer, TimeUp, Recording,
       Statuses, Locations, Length, Dangling, Rotating, Preparing, library, stored
<1>3. Unborn'
    BY DEF TypeOK, Control, Unborn, RotatingIdr, Offer, TimeUp, Recording,
       Statuses, Locations, Length, Dangling, Rotating, Preparing, library, stored
<1>4. Past'
    BY DEF TypeOK, Control, Past, Current, RotatingIdr, Offer, TimeUp, Recording,
       Statuses, Locations, Length, Dangling, Rotating, Preparing, library, stored
<1>5. Finished'
    BY DEF TypeOK, Control, Unborn, Finished, RotatingIdr, Offer, TimeUp, Recording,
       Statuses, Locations, Length, Dangling, Rotating, Preparing, library, stored
<1>6. Current'
    BY DEF TypeOK, Control, Unborn, Current, RotatingIdr, Offer, TimeUp, Recording,
       Statuses, Locations, Length, Dangling, Rotating, Preparing, library, stored
<1>7. KeyFrameFirst'
    BY DEF TypeOK, KeyFrameFirst, RotatingIdr, Offer, TimeUp, Recording,
       Statuses, Locations, Length, Dangling, Rotating, Preparing, library, stored
<1> QED
    BY <1>1, <1>2, <1>3, <1>4, <1>5, <1>6, <1>7

LEMMA PlainIdrStep ==
    ASSUME IInv, PlainIdr
    PROVE  IInv'
<1> USE RecorderAssumption DEF IInv, Segments, NoFile
<1>1. TypeOK'
  <2>1. offered' \in [Segments -> Nat]
      BY DEF TypeOK, PlainIdr, Offer
  <2>2. gops' \in Nat /\ pc' \in Locations
      BY DEF TypeOK, PlainIdr, Locations
  <2> QED
      BY <2>1, <2>2, FolderTypeKept DEF TypeOK, PlainIdr, library
<1>2. Control'
    BY DEF TypeOK, Control, Current, PlainIdr, Offer, TimeUp, Recording,
       Statuses, Locations, Length, Dangling, Rotating, Preparing, library, stored
<1>3. Unborn'
    BY DEF TypeOK, Control, Unborn, PlainIdr, Offer, TimeUp, Recording,
       Statuses, Locations, Length, Dangling, Rotating, Preparing, library, stored
<1>4. Past'
    BY DEF TypeOK, Control, Past, Current, PlainIdr, Offer, TimeUp, Recording,
       Statuses, Locations, Length, Dangling, Rotating, Preparing, library, stored
<1>5. Finished'
    BY DEF TypeOK, Control, Finished, Current, PlainIdr, Offer, TimeUp, Recording,
       Statuses, Locations, Length, Dangling, Rotating, Preparing, library, stored
<1>6. Current'
    BY DEF TypeOK, Control, Unborn, Current, PlainIdr, Offer, TimeUp, Recording,
       Statuses, Locations, Length, Dangling, Rotating, Preparing, library, stored
<1>7. KeyFrameFirst'
    BY DEF TypeOK, KeyFrameFirst, PlainIdr, Offer, TimeUp, Recording,
       Statuses, Locations, Length, Dangling, Rotating, Preparing, library, stored
<1> QED
    BY <1>1, <1>2, <1>3, <1>4, <1>5, <1>6, <1>7

LEMMA DeltaFrameStep ==
    ASSUME IInv, DeltaFrame
    PROVE  IInv'
<1> USE RecorderAssumption DEF IInv, Segments, NoFile
<1>1. TypeOK'
    BY FolderTypeKept DEF TypeOK, Control, DeltaFrame, Offer, Recording,
       Statuses, Locations, Length, Dangling, Rotating, Preparing, library, stored
<1>2. Control'
    BY DEF TypeOK, Control, Current, DeltaFrame, Offer, Recording,
       Statuses, Locations, Length, Dangling, Rotating, Preparing, library, stored
<1>3. Unborn'
    BY DEF TypeOK, Control, Unborn, DeltaFrame, Offer, Recording,
       Statuses, Locations, Length, Dangling, Rotating, Preparing, library, stored
<1>4. Past'
    BY DEF TypeOK, Control, Past, Current, DeltaFrame, Offer, Recording,
       Statuses, Locations, Length, Dangling, Rotating, Preparing, library, stored
<1>5. Finished'
    BY DEF TypeOK, Control, Finished, Current, DeltaFrame, Offer, Recording,
       Statuses, Locations, Length, Dangling, Rotating, Preparing, library, stored
<1>6. Current'
    BY DEF TypeOK, Control, Unborn, Current, DeltaFrame, Offer, Recording,
       Statuses, Locations, Length, Dangling, Rotating, Preparing, library, stored
<1>7. KeyFrameFirst'
    BY DEF TypeOK, KeyFrameFirst, DeltaFrame, Offer, Recording,
       Statuses, Locations, Length, Dangling, Rotating, Preparing, library, stored
<1> QED
    BY <1>1, <1>2, <1>3, <1>4, <1>5, <1>6, <1>7

LEMMA CloseTestStep ==
    ASSUME IInv, CloseTest
    PROVE  IInv'
<1> USE RecorderAssumption DEF IInv, Segments, NoFile
<1>1. TypeOK'
    BY FolderTypeKept DEF TypeOK, Control, CloseTest, CloseTarget,
       Statuses, Locations, Length, Dangling, Rotating, Preparing, library, stored
<1>2. Control'
    BY DEF TypeOK, Control, Current, CloseTest, CloseTarget,
       Statuses, Locations, Length, Dangling, Rotating, Preparing, library, stored
<1>3. Unborn'
    BY DEF TypeOK, Control, Unborn, CloseTest, CloseTarget,
       Statuses, Locations, Length, Dangling, Rotating, Preparing, library, stored
<1>4. Past'
    BY DEF TypeOK, Control, Past, Current, CloseTest, CloseTarget,
       Statuses, Locations, Length, Dangling, Rotating, Preparing, library, stored
<1>5. Finished'
    BY DEF TypeOK, Control, Finished, Current, CloseTest, CloseTarget,
       Statuses, Locations, Length, Dangling, Rotating, Preparing, library, stored
<1>6. Current'
    BY DEF TypeOK, Control, Unborn, Current, CloseTest, CloseTarget,
       Statuses, Locations, Length, Dangling, Rotating, Preparing, library, stored
<1>7. KeyFrameFirst'
    BY DEF TypeOK, KeyFrameFirst, CloseTest, CloseTarget,
       Statuses, Locations, Length, Dangling, Rotating, Preparing, library, stored
<1> QED
    BY <1>1, <1>2, <1>3, <1>4, <1>5, <1>6, <1>7

LEMMA CloseStep ==
    ASSUME IInv, Close
    PROVE  IInv'
<1> USE RecorderAssumption DEF IInv, Segments, NoFile
<1>1. TypeOK'
    BY FolderTypeKept DEF TypeOK, Control, Close, MP4Close,
       Statuses, Locations, Length, Dangling, Rotating, Preparing, library, stored
<1>2. Control'
    BY DEF TypeOK, Control, Current, Close, MP4Close,
       Statuses, Locations, Length, Dangling, Rotating, Preparing, library, stored
<1>3. Unborn'
    BY DEF TypeOK, Control, Unborn, Close, MP4Close,
       Statuses, Locations, Length, Dangling, Rotating, Preparing, library, stored
<1>4. Past'
    BY DEF TypeOK, Control, Past, Current, Close, MP4Close,
       Statuses, Locations, Length, Dangling, Rotating, Preparing, library, stored
<1>5. Finished'
  <2> SUFFICES ASSUME NEW s \in Segments, status'[s] = "closed"
               PROVE  samples[s] = offered[s] /\ syncs[s] = Length
      BY DEF Finished, Close, stored, Length
  <2>1. CASE s = handle
    <3>1. pc = "close" /\ handle # 0 /\ handle = tries
        BY DEF Control, Close
    <3>2. gops = Length
      <4>1. tries > 0
          BY <3>1 DEF TypeOK
      <4> QED
          BY <3>1, <4>1 DEF Control
    <3>3. handle # 0 /\ samples[handle] = offered[handle] /\ syncs[handle] = gops
        BY <2>1, <3>1 DEF Current
    <3> QED
        BY <2>1, <3>2, <3>3
  <2>2. CASE s # handle
    <3>1. status[s] = "closed"
        BY <2>2 DEF TypeOK, Close, MP4Close
    <3> QED
        BY <3>1 DEF Finished
  <2> QED
      BY <2>1, <2>2
<1>6. Current'
    BY DEF TypeOK, Control, Unborn, Current, Close, MP4Close,
       Statuses, Locations, Length, Dangling, Rotating, Preparing, library, stored
<1>7. KeyFrameFirst'
    BY DEF TypeOK, KeyFrameFirst, Close, MP4Close,
       Statuses, Locations, Length, Dangling, Rotating, Preparing, library, stored
<1> QED
    BY <1>1, <1>2, <1>3, <1>4, <1>5, <1>6, <1>7

LEMMA CountFilesStep ==
    ASSUME IInv, CountFiles
    PROVE  IInv'
<1> USE RecorderAssumption DEF IInv, Segments, NoFile
<1>1. TypeOK'
    BY FolderTypeKept DEF TypeOK, Control, CountFiles, ScanFolder,
       Statuses, Locations, Length, Dangling, Rotating, Preparing, library, stored
<1>2. Control'
    BY DEF TypeOK, Control, Current, CountFiles, ScanFolder,
       Statuses, Locations, Length, Dangling, Rotating, Preparing, library, stored
<1>3. Unborn'
    BY DEF TypeOK, Control, Unborn, CountFiles, ScanFolder,
       Statuses, Locations, Length, Dangling, Rotating, Preparing, library, stored
<1>4. Past'
    BY DEF TypeOK, Control, Past, Current, CountFiles, ScanFolder,
       Statuses, Locations, Length, Dangling, Rotating, Preparing, library, stored
<1>5. Finished'
    BY DEF TypeOK, Control, Finished, Current, CountFiles, ScanFolder,
       Statuses, Locations, Length, Dangling, Rotating, Preparing, library, stored
<1>6. Current'
    BY DEF TypeOK, Control, Unborn, Current, CountFiles, ScanFolder,
       Statuses, Locations, Length, Dangling, Rotating, Preparing, library, stored
<1>7. KeyFrameFirst'
    BY DEF TypeOK, KeyFrameFirst, CountFiles, ScanFolder,
       Statuses, Locations, Length, Dangling, Rotating, Preparing, library, stored
<1> QED
    BY <1>1, <1>2, <1>3, <1>4, <1>5, <1>6, <1>7

LEMMA FindOldestStep ==
    ASSUME IInv, FindOldest
    PROVE  IInv'
<1> USE RecorderAssumption DEF IInv, Segments, NoFile
<1>1. TypeOK'
    BY FolderTypeKept DEF TypeOK, Control, FindOldest, ScanFolder,
       Statuses, Locations, Length, Dangling, Rotating, Preparing, library, stored
<1>2. Control'
    BY DEF TypeOK, Control, Current, FindOldest, ScanFolder,
       Statuses, Locations, Length, Dangling, Rotating, Preparing, library, stored
<1>3. Unborn'
    BY DEF TypeOK, Control, Unborn, FindOldest, ScanFolder,
       Statuses, Locations, Length, Dangling, Rotating, Preparing, library, stored
<1>4. Past'
    BY DEF TypeOK, Control, Past, Current, FindOldest, ScanFolder,
       Statuses, Locations, Length, Dangling, Rotating, Preparing, library, stored
<1>5. Finished'
    BY DEF TypeOK, Control, Finished, Current, FindOldest, ScanFolder,
       Statuses, Locations, Length, Dangling, Rotating, Preparing, library, stored
<1>6. Current'
    BY DEF TypeOK, Control, Unborn, Current, FindOldest, ScanFolder,
       Statuses, Locations, Length, Dangling, Rotating, Preparing, library, stored
<1>7. KeyFrameFirst'
    BY DEF TypeOK, KeyFrameFirst, FindOldest, ScanFolder,
       Statuses, Locations, Length, Dangling, Rotating, Preparing, library, stored
<1> QED
    BY <1>1, <1>2, <1>3, <1>4, <1>5, <1>6, <1>7

LEMMA RemoveOldestStep ==
    ASSUME IInv, RemoveOldest
    PROVE  IInv'
<1> USE RecorderAssumption DEF IInv, Segments, NoFile
<1>1. TypeOK'
    BY FolderTypeKept DEF TypeOK, Control, RemoveOldest,
       Statuses, Locations, Length, Dangling, Rotating, Preparing, library, stored
<1>2. Control'
    BY DEF TypeOK, Control, Current, RemoveOldest,
       Statuses, Locations, Length, Dangling, Rotating, Preparing, library, stored
<1>3. Unborn'
    BY DEF TypeOK, Control, Unborn, RemoveOldest,
       Statuses, Locations, Length, Dangling, Rotating, Preparing, library, stored
<1>4. Past'
    BY DEF TypeOK, Control, Past, Current, RemoveOldest,
       Statuses, Locations, Length, Dangling, Rotating, Preparing, library, stored
<1>5. Finished'
    BY DEF TypeOK, Control, Finished, Current, RemoveOldest,
       Statuses, Locations, Length, Dangling, Rotating, Preparing, library, stored
<1>6. Current'
    BY DEF TypeOK, Control, Unborn, Current, RemoveOldest,
       Statuses, Locations, Length, Dangling, Rotating, Preparing, library, stored
<1>7. KeyFrameFirst'
    BY DEF TypeOK, KeyFrameFirst, RemoveOldest,
       Statuses, Locations, Length, Dangling, Rotating, Preparing, library, stored
<1> QED
    BY <1>1, <1>2, <1>3, <1>4, <1>5, <1>6, <1>7

(* A name is a pair of numbers, and only one second has it: no field of    *)
(* the local time runs over into the next.                                 *)
Tm == [year : 0 .. 8099, mon : 0 .. 11, mday : 1 .. 31,
       hour : 0 .. 23, min : 0 .. 59, sec : 0 .. 60]

LEMMA TmFields ==
    ASSUME NEW t \in LocalTimes
    PROVE  /\ t \in Tm
           /\ t.year \in Int /\ t.year + 1900 \in Int
           /\ t.mon \in Int /\ t.mday \in Int
           /\ t.hour \in Int /\ t.min \in Int /\ t.sec \in Int
           /\ t.mon + 1 \in 0 .. 99 /\ t.mday \in 0 .. 99
           /\ t.min \in 0 .. 99 /\ t.sec \in 0 .. 99
<1>1. t \in Tm
    BY ClockAssumption DEF Tm
<1>2. t.year \in Int /\ t.year + 1900 \in Int
  <2> DEFINE y == t.year
  <2>1. y \in 0 .. 8099
      BY <1>1 DEF Tm
  <2> HIDE DEF y
  <2>2. y \in Int /\ y + 1900 \in Int
      BY <2>1
  <2> QED
      BY <2>2 DEF y
<1>3. t.mon \in Int /\ t.mon + 1 \in 0 .. 99
    BY <1>1 DEF Tm
<1>4. t.mday \in Int /\ t.mday \in 0 .. 99
    BY <1>1 DEF Tm
<1>5. t.hour \in Int
    BY <1>1 DEF Tm
<1>6. t.min \in Int /\ t.min \in 0 .. 99
    BY <1>1 DEF Tm
<1>7. t.sec \in Int /\ t.sec \in 0 .. 99
    BY <1>1 DEF Tm
<1> QED
    BY <1>1, <1>2, <1>3, <1>4, <1>5, <1>6, <1>7

LEMMA NameType ==
    ASSUME NEW t \in LocalTimes
    PROVE  FileName(t) \in Int \X Int
<1>1. (t.year + 1900) * 10000 + (t.mon + 1) * 100 + t.mday \in Int
    BY TmFields
<1>2. t.hour * 10000 + t.min * 100 + t.sec \in Int
    BY TmFields
<1> QED
    BY <1>1, <1>2 DEF FileName

LEMMA NamesDiffer ==
    ASSUME NEW t \in LocalTimes, NEW u \in LocalTimes, FileName(t) = FileName(u)
    PROVE  t = u
<1>1. /\ (t.year + 1900) * 10000 + (t.mon + 1) * 100 + t.mday
           = (u.year + 1900) * 10000 + (u.mon + 1) * 100 + u.mday
      /\ t.hour * 10000 + t.min * 100 + t.sec = u.hour * 10000 + u.min * 100 + u.sec
    BY DEF FileName
<1> DEFINE a == t.year + 1900  b == t.mon + 1  c == t.mday
           d == u.year + 1900  e == u.mon + 1  f == u.mday
<1>2. /\ a \in Int /\ b \in 0 .. 99 /\ c \in 0 .. 99
      /\ d \in Int /\ e \in 0 .. 99 /\ f \in 0 .. 99
      /\ a * 10000 + b * 100 + c = d * 10000 + e * 100 + f
    BY <1>1, TmFields
<1> HIDE DEF a, b, c, d, e, f
<1>3. a = d /\ b = e /\ c = f
    BY <1>2
<1> USE DEF a, b, c, d, e, f
<1>4. t.year = u.year /\ t.mon = u.mon
    BY <1>3, TmFields
<1>5. t.hour = u.hour /\ t.min = u.min /\ t.sec = u.sec
  <2> DEFINE g == t.hour  h == t.min  i == t.sec
             j == u.hour  k == u.min  l == u.sec
  <2>1. /\ g \in Int /\ h \in 0 .. 99 /\ i \in 0 .. 99
        /\ j \in Int /\ k \in 0 .. 99 /\ l \in 0 .. 99
        /\ g * 10000 + h * 100 + i = j * 10000 + k * 100 + l
      BY <1>1, TmFields
  <2> HIDE DEF g, h, i, j, k, l
  <2>2. g = j /\ h = k /\ i = l
      BY <2>1
  <2> QED
      BY <2>2 DEF g, h, i, j, k, l
<1>6. t \in Tm /\ u \in Tm
    BY TmFields
<1> QED
    BY <1>3, <1>4, <1>5, <1>6 DEF Tm

LEMMA CreateFileStep ==
    ASSUME IInv, NEW now \in LocalTimes, CreateFile(now)
    PROVE  IInv'
<1> USE RecorderAssumption DEF IInv, Segments, NoFile
<1> DEFINE new == tries + 1
<1>a. new \in Segments
    BY DEF TypeOK, Control, CreateFile, Rotating, Dangling
<1>b. \/ /\ handle' = new
         /\ files' = [g \in DOMAIN files \cup {FileName(now)} |->
                         IF g = FileName(now) THEN new ELSE files[g]]
         /\ status' = [status EXCEPT ![new] = "open"]
         /\ born' = [born EXCEPT ![new] = now]
      \/ /\ handle' = 0
         /\ status' = [status EXCEPT ![new] = "failed"]
         /\ UNCHANGED <<files, born>>
    BY DEF CreateFile, PutFile, HandleAfterFailure
<1>c. /\ pc = "create" /\ pc' = "track" /\ tries' = new
      /\ UNCHANGED <<passed, spsflag, gops, track, dirs, stored, offered, misused>>
    BY DEF CreateFile
<1>1. TypeOK'
  <2>1. /\ DOMAIN files' \subseteq Int \X Int
        /\ files' \in [DOMAIN files' -> {0} \cup Segments]
        /\ handle' \in {0} \cup Segments
    <3>1. FileName(now) \in Int \X Int
        BY NameType
    <3>2. DOMAIN files \subseteq Int \X Int /\ files \in [DOMAIN files -> {0} \cup Segments]
        BY DEF TypeOK, FolderTypeOK
    <3>3. handle' \in {0} \cup Segments
        BY <1>a, <1>b
    <3>4. CASE UNCHANGED files
        BY <3>2, <3>3, <3>4
    <3>5. CASE files' = [g \in DOMAIN files \cup {FileName(now)} |->
                            IF g = FileName(now) THEN new ELSE files[g]]
      <4>1. DOMAIN files' = DOMAIN files \cup {FileName(now)}
          BY <3>5
      <4>2. \A g \in DOMAIN files' : files'[g] \in {0} \cup Segments
          BY <1>a, <3>2, <3>5
      <4> QED
          BY <3>1, <3>2, <3>3, <3>5, <4>1, <4>2
    <3> QED
        BY <1>b, <3>4, <3>5
  <2>2. status' \in [Segments -> Statuses]
      BY <1>b DEF TypeOK, Statuses
  <2>3. born' \in [Segments -> LocalTimes \cup {NoTime}]
    <3>1. born \in [Segments -> LocalTimes \cup {NoTime}]
        BY DEF TypeOK, FolderTypeOK
    <3>2. CASE UNCHANGED born
        BY <3>1, <3>2
    <3>3. CASE born' = [born EXCEPT ![new] = now]
        BY <1>a, <3>1, <3>3
    <3> QED
        BY <1>b, <3>2, <3>3
  <2>4. tries' \in 0 .. MaxSegments
      BY <1>a, <1>c DEF TypeOK
  <2> QED
      BY <2>1, <2>2, <2>3, <2>4, <1>a, <1>c DEF TypeOK, FolderTypeOK, Locations, stored
<1>2. Control'
    BY DEF TypeOK, Control, Current, CreateFile, HandleAfterFailure,
       Statuses, Locations, Length, Dangling, Rotating, Preparing, library, stored
<1>3. Unborn'
    BY DEF TypeOK, Control, Unborn, CreateFile, HandleAfterFailure,
       Statuses, Locations, Length, Dangling, Rotating, Preparing, library, stored
<1>4. Past'
  <2> SUFFICES ASSUME NEW s \in Segments, s <= tries', s # handle'
               PROVE  status'[s] \in {"closed", "failed"}
      BY DEF Past
  <2>1. CASE s = new
      BY <2>1, <1>b DEF TypeOK
  <2>2. CASE s # new
    <3>1. s <= tries /\ status'[s] = status[s]
      <4>1. tries \in Int /\ status \in [Segments -> Statuses] /\ s \in Int
          BY DEF TypeOK
      <4>2. s <= tries
          BY <2>2, <4>1, <1>c
      <4>3. status'[s] = status[s]
          BY <2>2, <4>1, <1>b
      <4> QED
          BY <4>2, <4>3
    <3>2. s = handle => status[s] = "closed"
        BY <1>c DEF Current, Dangling
    <3> QED
        BY <3>1, <3>2 DEF Past
  <2> QED
      BY <2>1, <2>2
<1>5. Finished'
    BY DEF TypeOK, Control, Finished, Current, CreateFile, HandleAfterFailure,
       Statuses, Locations, Length, Dangling, Rotating, Preparing, library, stored
<1>6. Current'
  <2>1. tries \in Nat /\ new = tries + 1 /\ new # 0
      BY DEF TypeOK
  <2>2. CASE handle' = 0 /\ status'[new] = "failed"
      BY <2>2, <1>c DEF Current
  <2>3. CASE handle' = new /\ status'[new] = "open"
    <3>1. samples[new] = 0 /\ syncs[new] = 0 /\ offered[new] = 1
        BY <2>1, <1>a, <1>c DEF Unborn, Rotating, Dangling
    <3>2. samples'[new] = 0 /\ syncs'[new] = 0 /\ offered'[new] = 1
        BY <3>1, <1>c DEF stored
    <3> QED
        BY <2>1, <2>3, <3>2, <1>c DEF Current, Dangling, Rotating, Preparing
  <2> QED
      BY <1>a, <1>b, <2>2, <2>3 DEF TypeOK
<1>7. KeyFrameFirst'
    BY DEF TypeOK, KeyFrameFirst, CreateFile, HandleAfterFailure,
       Statuses, Locations, Length, Dangling, Rotating, Preparing, library, stored
<1> QED
    BY <1>1, <1>2, <1>3, <1>4, <1>5, <1>6, <1>7

LEMMA AddTrackStep ==
    ASSUME IInv, AddTrack
    PROVE  IInv'
<1> USE RecorderAssumption DEF IInv, Segments, NoFile
<1>1. TypeOK'
    BY FolderTypeKept DEF TypeOK, Control, AddTrack, UsesClosed,
       Statuses, Locations, Length, Dangling, Rotating, Preparing, library, stored
<1>2. Control'
    BY DEF TypeOK, Control, Current, AddTrack, UsesClosed,
       Statuses, Locations, Length, Dangling, Rotating, Preparing, library, stored
<1>3. Unborn'
    BY DEF TypeOK, Control, Unborn, AddTrack, UsesClosed,
       Statuses, Locations, Length, Dangling, Rotating, Preparing, library, stored
<1>4. Past'
    BY DEF TypeOK, Control, Past, Current, AddTrack, UsesClosed,
       Statuses, Locations, Length, Dangling, Rotating, Preparing, library, stored
<1>5. Finished'
    BY DEF TypeOK, Control, Finished, Current, AddTrack, UsesClosed,
       Statuses, Locations, Length, Dangling, Rotating, Preparing, library, stored
<1>6. Current'
    BY DEF TypeOK, Control, Unborn, Current, AddTrack, UsesClosed,
       Statuses, Locations, Length, Dangling, Rotating, Preparing, library, stored
<1>7. KeyFrameFirst'
    BY DEF TypeOK, KeyFrameFirst, AddTrack, UsesClosed,
       Statuses, Locations, Length, Dangling, Rotating, Preparing, library, stored
<1> QED
    BY <1>1, <1>2, <1>3, <1>4, <1>5, <1>6, <1>7

LEMMA AddParameterSetsStep ==
    ASSUME IInv, AddParameterSets
    PROVE  IInv'
<1> USE RecorderAssumption DEF IInv, Segments, NoFile
<1>1. TypeOK'
    BY FolderTypeKept DEF TypeOK, Control, AddParameterSets, Restart, AfterParams, UsesClosed,
       Statuses, Locations, Length, Dangling, Rotating, Preparing, library, stored
<1>2. Control'
    BY DEF TypeOK, Control, Current, AddParameterSets, Restart, AfterParams, UsesClosed,
       Statuses, Locations, Length, Dangling, Rotating, Preparing, library, stored
<1>3. Unborn'
    BY DEF TypeOK, Control, Unborn, AddParameterSets, Restart, AfterParams, UsesClosed,
       Statuses, Locations, Length, Dangling, Rotating, Preparing, library, stored
<1>4. Past'
    BY DEF TypeOK, Control, Past, Current, AddParameterSets, Restart, AfterParams, UsesClosed,
       Statuses, Locations, Length, Dangling, Rotating, Preparing, library, stored
<1>5. Finished'
    BY DEF TypeOK, Control, Finished, Current, AddParameterSets, Restart, AfterParams, UsesClosed,
       Statuses, Locations, Length, Dangling, Rotating, Preparing, library, stored
<1>6. Current'
    BY DEF TypeOK, Control, Unborn, Current, AddParameterSets, Restart, AfterParams, UsesClosed,
       Statuses, Locations, Length, Dangling, Rotating, Preparing, library, stored
<1>7. KeyFrameFirst'
    BY DEF TypeOK, KeyFrameFirst, AddParameterSets, Restart, AfterParams, UsesClosed,
       Statuses, Locations, Length, Dangling, Rotating, Preparing, library, stored
<1> QED
    BY <1>1, <1>2, <1>3, <1>4, <1>5, <1>6, <1>7

LEMMA WriteSyncStep ==
    ASSUME IInv, WriteSync
    PROVE  IInv'
<1> USE RecorderAssumption DEF IInv, Segments, NoFile
<1>a. /\ pc = "writeSync" /\ pc' = "idle" /\ ~misused'
      /\ UNCHANGED <<passed, spsflag, gops, handle, track, dirs, files,
                     status, born, offered, tries>>
    BY DEF WriteSync, MP4WriteSample, UsesClosed, Control, Current, Dangling
<1>b. handle = 0 => UNCHANGED stored
    BY DEF WriteSync, MP4WriteSample
<1>c. handle # 0 =>
          /\ handle \in Segments
          /\ samples' = [samples EXCEPT ![handle] = samples[handle] + 1]
          /\ syncs' = [syncs EXCEPT ![handle] = syncs[handle] + 1]
          /\ keyFirst' = IF samples[handle] > 0 THEN keyFirst
                         ELSE [keyFirst EXCEPT ![handle] = TRUE]
    BY <1>a DEF WriteSync, MP4WriteSample, Current, Dangling, TypeOK
<1>1. TypeOK'
  <2>1. samples' \in [Segments -> Nat] /\ syncs' \in [Segments -> Nat]
    <3>1. CASE handle = 0
        BY <3>1, <1>b DEF TypeOK, stored
    <3>2. CASE handle # 0
      <4>1. samples[handle] + 1 \in Nat /\ syncs[handle] + 1 \in Nat
          BY <3>2, <1>c DEF TypeOK
      <4>2. samples' \in [Segments -> Nat]
          BY <3>2, <4>1, <1>c DEF TypeOK
      <4>3. syncs' \in [Segments -> Nat]
          BY <3>2, <4>1, <1>c DEF TypeOK
      <4> QED
          BY <4>2, <4>3
    <3> QED
        BY <3>1, <3>2
  <2>2. keyFirst' \in [Segments -> BOOLEAN]
      BY <1>b, <1>c DEF TypeOK, stored
  <2>3. misused' \in BOOLEAN
      BY DEF WriteSync, MP4WriteSample
  <2> QED
      BY <2>1, <2>2, <2>3, <1>a, FolderTypeKept DEF TypeOK, Locations
<1>2. Control'
    BY <1>a DEF Control, Preparing, Rotating, Dangling
<1>3. Unborn'
  <2> SUFFICES ASSUME NEW s \in Segments, s > tries
               PROVE  /\ status[s] = "none" /\ samples'[s] = 0 /\ syncs'[s] = 0
                      /\ offered[s] = 0
    <3>1. pc' \notin Rotating
        BY <1>a DEF Rotating, Dangling
    <3> QED
        BY <1>a, <3>1 DEF Unborn
  <2>1. status[s] = "none" /\ samples[s] = 0 /\ syncs[s] = 0 /\ offered[s] = 0
      BY <1>a DEF Unborn, Rotating, Dangling
  <2>2. s # handle
      BY DEF Control, TypeOK
  <2>3. samples'[s] = samples[s] /\ syncs'[s] = syncs[s]
      BY <2>2, <1>b, <1>c DEF TypeOK, stored
  <2> QED
      BY <2>1, <2>3
<1>4. Past'
    BY <1>a DEF Past
<1>5. Finished'
    BY <1>a, <1>b, <1>c DEF TypeOK, Finished, Current, Dangling, stored
<1>6. Current'
    BY <1>a, <1>b, <1>c DEF TypeOK, Control, Current, Dangling, Preparing, stored
<1>7. KeyFrameFirst'
  <2>1. CASE handle = 0
      BY <2>1, <1>b DEF KeyFrameFirst, stored
  <2>2. CASE handle # 0
    <3>1. keyFirst'[handle]
        BY <2>2, <1>a, <1>c DEF TypeOK, KeyFrameFirst, Current
    <3>2. \A s \in Segments : s # handle =>
              samples'[s] = samples[s] /\ keyFirst'[s] = keyFirst[s]
        BY <2>2, <1>c DEF TypeOK
    <3> QED
        BY <3>1, <3>2, <1>a DEF KeyFrameFirst
  <2> QED
      BY <2>1, <2>2
<1> QED
    BY <1>1, <1>2, <1>3, <1>4, <1>5, <1>6, <1>7

LEMMA WriteDeltaStep ==
    ASSUME IInv, WriteDelta
    PROVE  IInv'
<1> USE RecorderAssumption DEF IInv, Segments, NoFile
<1>a. /\ pc = "writeDelta" /\ pc' = "idle" /\ ~misused'
      /\ UNCHANGED <<passed, spsflag, gops, handle, track, dirs, files,
                     status, born, offered, tries>>
    BY DEF WriteDelta, MP4WriteSample, UsesClosed, Control, Current, Dangling
<1>b. handle = 0 => UNCHANGED stored
    BY DEF WriteDelta, MP4WriteSample
<1>c. handle # 0 =>
          /\ handle \in Segments
          /\ samples' = [samples EXCEPT ![handle] = samples[handle] + 1]
          /\ syncs' = syncs
          /\ keyFirst' = IF samples[handle] > 0 THEN keyFirst
                         ELSE [keyFirst EXCEPT ![handle] = FALSE]
    BY <1>a DEF WriteDelta, MP4WriteSample, Current, Dangling, TypeOK
<1>1. TypeOK'
  <2>1. samples' \in [Segments -> Nat] /\ syncs' \in [Segments -> Nat]
    <3>1. CASE handle = 0
        BY <3>1, <1>b DEF TypeOK, stored
    <3>2. CASE handle # 0
      <4>1. samples[handle] + 1 \in Nat /\ syncs[handle] + 1 \in Nat
          BY <3>2, <1>c DEF TypeOK
      <4>2. samples' \in [Segments -> Nat]
          BY <3>2, <4>1, <1>c DEF TypeOK
      <4>3. syncs' \in [Segments -> Nat]
          BY <3>2, <4>1, <1>c DEF TypeOK
      <4> QED
          BY <4>2, <4>3
    <3> QED
        BY <3>1, <3>2
  <2>2. keyFirst' \in [Segments -> BOOLEAN]
      BY <1>b, <1>c DEF TypeOK, stored
  <2>3. misused' \in BOOLEAN
      BY DEF WriteDelta, MP4WriteSample
  <2> QED
      BY <2>1, <2>2, <2>3, <1>a, FolderTypeKept DEF TypeOK, Locations
<1>2. Control'
    BY <1>a DEF Control, Preparing, Rotating, Dangling
<1>3. Unborn'
  <2> SUFFICES ASSUME NEW s \in Segments, s > tries
               PROVE  /\ status[s] = "none" /\ samples'[s] = 0 /\ syncs'[s] = 0
                      /\ offered[s] = 0
    <3>1. pc' \notin Rotating
        BY <1>a DEF Rotating, Dangling
    <3> QED
        BY <1>a, <3>1 DEF Unborn
  <2>1. status[s] = "none" /\ samples[s] = 0 /\ syncs[s] = 0 /\ offered[s] = 0
      BY <1>a DEF Unborn, Rotating, Dangling
  <2>2. s # handle
      BY DEF Control, TypeOK
  <2>3. samples'[s] = samples[s] /\ syncs'[s] = syncs[s]
      BY <2>2, <1>b, <1>c DEF TypeOK, stored
  <2> QED
      BY <2>1, <2>3
<1>4. Past'
    BY <1>a DEF Past
<1>5. Finished'
    BY <1>a, <1>b, <1>c DEF TypeOK, Finished, Current, Dangling, stored
<1>6. Current'
    BY <1>a, <1>b, <1>c DEF TypeOK, Control, Current, Dangling, Preparing, stored
<1>7. KeyFrameFirst'
  <2>1. CASE handle = 0
      BY <2>1, <1>b DEF KeyFrameFirst, stored
  <2>2. CASE handle # 0
    <3>1. keyFirst'[handle]
        BY <2>2, <1>a, <1>c DEF TypeOK, KeyFrameFirst, Current
    <3>2. \A s \in Segments : s # handle =>
              samples'[s] = samples[s] /\ keyFirst'[s] = keyFirst[s]
        BY <2>2, <1>c DEF TypeOK
    <3> QED
        BY <3>1, <3>2, <1>a DEF KeyFrameFirst
  <2> QED
      BY <2>1, <2>2
<1> QED
    BY <1>1, <1>2, <1>3, <1>4, <1>5, <1>6, <1>7

-----------------------------------------------------------------------------
LEMMA InitInvariant ==
    ASSUME Init
    PROVE  IInv
<1> USE RecorderAssumption DEF Init, Segments, NoFile
<1>1. TypeOK
  <2>1. status \in [Segments -> Statuses] /\ born \in [Segments -> LocalTimes \cup {NoTime}]
      BY DEF Statuses
  <2>2. keyFirst \in [Segments -> BOOLEAN]
      OBVIOUS
  <2>3. samples \in [Segments -> Nat] /\ syncs \in [Segments -> Nat]
        /\ offered \in [Segments -> Nat]
      OBVIOUS
  <2>4. tries \in 0 .. MaxSegments /\ passed \in 0 .. PassFrameNum
        /\ dirs \in 0 .. MaxDirs
      OBVIOUS
  <2>5. spsflag \in BOOLEAN /\ track \in BOOLEAN /\ misused \in BOOLEAN
      OBVIOUS
  <2>6. /\ DOMAIN files \subseteq Int \X Int
        /\ files \in [DOMAIN files -> {NoFile} \cup Segments]
      BY FolderAssumption
  <2> QED
      BY <2>1, <2>2, <2>3, <2>4, <2>5, <2>6 DEF TypeOK, FolderTypeOK, Locations
<1>2. Control
    BY DEF Control, Length, Preparing, Rotating, Dangling
<1>3. Unborn /\ Past /\ Finished /\ Current /\ KeyFrameFirst
    BY DEF Unborn, Past, Finished, Current, KeyFrameFirst, Rotating, Dangling
<1> QED
    BY <1>1, <1>2, <1>3 DEF IInv

LEMMA StutterInvariant ==
    ASSUME IInv, UNCHANGED vars
    PROVE  IInv'
BY DEF IInv, vars, library, TypeOK, FolderTypeOK, Control, Unborn, Past, Finished, Current,
       KeyFrameFirst, IsStored

LEMMA StepInvariant ==
    ASSUME IInv, [Next]_vars
    PROVE  IInv'
<1>1. CASE Receive
    BY <1>1, PassFrameStep, RotatingIdrStep, PlainIdrStep, DeltaFrameStep DEF Receive
<1>2. CASE Work
    BY <1>2, CloseTestStep, CloseStep, CountFilesStep, FindOldestStep,
       RemoveOldestStep, CreateFileStep, AddTrackStep, AddParameterSetsStep,
       WriteSyncStep, WriteDeltaStep DEF Work
<1>3. CASE UNCHANGED vars
    BY <1>3, StutterInvariant
<1> QED
    BY <1>1, <1>2, <1>3 DEF Next

LEMMA Invariant == Spec => []IInv
BY InitInvariant, StepInvariant, PTL DEF Spec

-----------------------------------------------------------------------------
(* The types of the recorder's state, from any reachable state.            *)
THEOREM TypeCorrect == Spec => []TypeOK
<1>1. IInv => TypeOK
    BY DEF IInv
<1> QED
    BY <1>1, Invariant, PTL

(* mp4_length is the length of every file that rotation closes, whatever   *)
(* its value and however many creations failed before.                     *)
THEOREM FilesAreFull == Spec => []FullSegments
<1>1. IInv => FullSegments
    BY DEF IInv, Finished, FullSegments, Length
<1> QED
    BY <1>1, Invariant, PTL

(* hMP4File dangles after close_mp4_file_saving, yet the callback thread   *)
(* alone never hands a closed file to the MP4 library.                     *)
THEOREM HandleSafe == Spec => []NoUseAfterClose
<1>1. IInv => NoUseAfterClose
    BY DEF IInv, Control, NoUseAfterClose
<1> QED
    BY <1>1, Invariant, PTL

(* Rotation leaks no open file.                                            *)
THEOREM NoLeakedFile == Spec => []OnlyCurrentOpen
<1>1. IInv => OnlyCurrentOpen
  <2> SUFFICES ASSUME IInv, NEW s \in Segments, status[s] = "open"
               PROVE  s = handle
      BY DEF OnlyCurrentOpen
  <2>1. s > tries => status[s] = "none"
      BY DEF IInv, Unborn
  <2>2. s <= tries \/ s > tries
      BY RecorderAssumption DEF IInv, TypeOK, Segments
  <2>3. s <= tries /\ s # handle => status[s] \in {"closed", "failed"}
      BY DEF IInv, Past
  <2> QED
      BY <2>1, <2>2, <2>3
<1> QED
    BY <1>1, Invariant, PTL

(* Every file starts with a key frame.                                     *)
THEOREM StartsWithKeyFrame == Spec => []KeyFrameFirst
<1>1. IInv => KeyFrameFirst
    BY DEF IInv
<1> QED
    BY <1>1, Invariant, PTL

(* Each file holds every packet that arrived while it was the latest, the  *)
(* packet that caused the rotation included: rotating loses nothing.       *)
THEOREM RotationLosesNothing == Spec => []NoPacketLost
<1>1. IInv => NoPacketLost
  <2> SUFFICES ASSUME IInv, pc = "idle", NEW s \in Segments, IsStored(s)
               PROVE  samples[s] = offered[s]
      BY DEF NoPacketLost
  <2>1. CASE status[s] = "closed"
      BY <2>1 DEF IInv, Finished
  <2>2. CASE status[s] = "open"
    <3>1. s = handle
      <4>1. s > tries => status[s] = "none"
          BY DEF IInv, Unborn
      <4>2. s <= tries \/ s > tries
          BY RecorderAssumption DEF IInv, TypeOK, Segments
      <4>3. s <= tries /\ s # handle => status[s] \in {"closed", "failed"}
          BY DEF IInv, Past
      <4> QED
          BY <2>2, <4>1, <4>2, <4>3
    <3>2. handle # NoFile
        BY <3>1, RecorderAssumption DEF Segments, NoFile
    <3> QED
        BY <3>1, <3>2 DEF IInv, Current
  <2> QED
      BY <2>1, <2>2 DEF IsStored
<1> QED
    BY <1>1, Invariant, PTL

-----------------------------------------------------------------------------
(* Recorder implements Recording, from IInv.                               *)

(* What changes no recording is a step Recording does not notice.          *)
LEMMA QuietStep ==
    ASSUME UNCHANGED <<status, syncs, samples>>
    PROVE  UNCHANGED <<RecordingState, syncs, samples>>
BY DEF RecordingState

(* MP4Close on the segment in hMP4File finishes its recording: it is full. *)
LEMMA CloseFinishes ==
    ASSUME IInv, Close
    PROVE  R!Finish(handle)
<1> USE RecorderAssumption DEF IInv, Segments, NoFile
<1>1. handle \in Segments /\ status[handle] = "open" /\ syncs[handle] = Length
  <2>1. handle \in Segments /\ handle = tries
      BY DEF Close, TypeOK, Control
  <2>2. spsflag
      BY <2>1 DEF Close, TypeOK, Control
  <2>3. gops = Length /\ syncs[handle] = gops
      BY <2>1, <2>2 DEF Close, Control, Current
  <2>4. status[handle] = "open"
      BY <2>1 DEF Close, Control, Current, Dangling
  <2> QED
      BY <2>1, <2>3, <2>4
<1>2. status' = [status EXCEPT ![handle] = "closed"] /\ UNCHANGED <<syncs, samples>>
    BY <1>1 DEF Close, MP4Close, stored
<1>3. RecordingState' = [RecordingState EXCEPT ![handle] = "finished"]
  <2> SUFFICES ASSUME NEW s \in Segments
               PROVE  RecordingState'[s] =
                          IF s = handle THEN "finished" ELSE RecordingState[s]
      BY <1>1 DEF RecordingState
  <2>1. status \in [Segments -> Statuses]
      BY DEF TypeOK
  <2> QED
      BY <1>1, <1>2, <2>1 DEF RecordingState
<1> QED
    BY <1>1, <1>2, <1>3 DEF R!Finish, R!contents, RecordingState

(* A creation begins the next recording, or fails and begins none.         *)
LEMMA CreateBegins ==
    ASSUME IInv, NEW now \in LocalTimes, CreateFile(now)
    PROVE  \/ \E s \in Segments : R!Begin(s)
           \/ UNCHANGED <<RecordingState, syncs, samples>>
<1> USE RecorderAssumption DEF IInv, Segments, NoFile
<1> DEFINE new == tries + 1
<1>1. new \in Segments /\ pc = "create" /\ UNCHANGED <<syncs, samples>>
    BY DEF TypeOK, Control, CreateFile, Rotating, Dangling, stored
<1>2. status \in [Segments -> Statuses]
    BY DEF TypeOK
<1>3. \A s \in Segments :
          status[s] # "open" /\ (s >= new => status[s] = "none")
  <2> SUFFICES ASSUME NEW s \in Segments
               PROVE  status[s] # "open" /\ (s >= new => status[s] = "none")
      OBVIOUS
  <2>1. s >= new => status[s] = "none"
      BY DEF TypeOK, Unborn
  <2>2. s <= tries /\ s # handle => status[s] # "open"
      BY DEF Past
  <2>3. s = handle => status[s] = "closed"
      BY <1>1 DEF Current, Dangling
  <2> QED
      BY <2>1, <2>2, <2>3 DEF TypeOK
<1>4. CASE status' = [status EXCEPT ![new] = "open"]
  <2>1. RecordingState' = [RecordingState EXCEPT ![new] = "open"]
    <3> SUFFICES ASSUME NEW s \in Segments
                 PROVE  RecordingState'[s] =
                            IF s = new THEN "open" ELSE RecordingState[s]
        BY <1>1 DEF RecordingState
    <3> QED
        BY <1>1, <1>2, <1>4 DEF RecordingState
  <2>2. \A s \in Segments :
            RecordingState[s] # "open" /\ (s >= new => RecordingState[s] = "none")
      BY <1>3 DEF RecordingState
  <2>3. R!Begin(new)
      BY <1>1, <2>1, <2>2 DEF R!Begin, R!contents
  <2> QED
      BY <1>1, <2>3
<1>5. CASE status' = [status EXCEPT ![new] = "failed"]
  <2> SUFFICES ASSUME NEW s \in Segments
               PROVE  RecordingState'[s] = RecordingState[s]
      BY <1>1 DEF RecordingState
  <2> QED
      BY <1>1, <1>2, <1>3, <1>5 DEF RecordingState
<1> QED
    BY <1>4, <1>5 DEF CreateFile

(* A key frame goes to the open recording, which is not full yet, or,      *)
(* after a failed creation, nowhere.                                       *)
LEMMA WriteSyncAppends ==
    ASSUME IInv, WriteSync
    PROVE  \/ \E s \in Segments : R!AppendKey(s)
           \/ UNCHANGED <<RecordingState, syncs, samples>>
<1> USE RecorderAssumption DEF IInv, Segments, NoFile
<1>1. UNCHANGED RecordingState
    BY DEF WriteSync, MP4WriteSample, RecordingState
<1>2. CASE handle # NoFile /\ status[handle] = "open" /\ track
  <2>1. handle \in Segments
      BY <1>2 DEF TypeOK
  <2>2. syncs[handle] < Length
      BY <1>2 DEF WriteSync, Control, Current
  <2>3. /\ samples' = [samples EXCEPT ![handle] = @ + 1]
        /\ syncs' = [syncs EXCEPT ![handle] = @ + 1]
      BY <1>2 DEF WriteSync, MP4WriteSample
  <2>4. R!AppendKey(handle)
      BY <1>1, <1>2, <2>1, <2>2, <2>3 DEF R!AppendKey, RecordingState
  <2> QED
      BY <2>1, <2>4
<1>3. CASE ~(handle # NoFile /\ status[handle] = "open" /\ track)
    BY <1>1, <1>3 DEF WriteSync, MP4WriteSample, stored
<1> QED
    BY <1>2, <1>3

(* A P slice goes to the open recording, behind a key frame, or nowhere.   *)
LEMMA WriteDeltaAppends ==
    ASSUME IInv, WriteDelta
    PROVE  \/ \E s \in Segments : R!AppendDelta(s)
           \/ UNCHANGED <<RecordingState, syncs, samples>>
<1> USE RecorderAssumption DEF IInv, Segments, NoFile
<1>1. UNCHANGED <<RecordingState, syncs>>
    BY DEF WriteDelta, MP4WriteSample, RecordingState, stored
<1>2. CASE handle # NoFile /\ status[handle] = "open" /\ track
  <2>1. handle \in Segments
      BY <1>2 DEF TypeOK
  <2>2. syncs[handle] > 0
      BY <1>2, <2>1 DEF WriteDelta, TypeOK, Control, Current
  <2>3. samples' = [samples EXCEPT ![handle] = @ + 1]
      BY <1>2 DEF WriteDelta, MP4WriteSample
  <2>4. R!AppendDelta(handle)
      BY <1>1, <1>2, <2>1, <2>2, <2>3 DEF R!AppendDelta, RecordingState
  <2> QED
      BY <2>1, <2>4
<1>3. CASE ~(handle # NoFile /\ status[handle] = "open" /\ track)
    BY <1>1, <1>3 DEF WriteDelta, MP4WriteSample, stored
<1> QED
    BY <1>2, <1>3

LEMMA RecordingStep ==
    ASSUME IInv, [Next]_vars
    PROVE  [R!Next]_<<RecordingState, syncs, samples>>
<1>1. CASE Close
  <2>1. handle \in Segments
      BY <1>1 DEF Close, IInv, Control, TypeOK
  <2> QED
      BY <1>1, <2>1, CloseFinishes DEF R!Next
<1>2. CASE \E now \in LocalTimes : CreateFile(now)
    BY <1>2, CreateBegins DEF R!Next
<1>3. CASE WriteSync
    BY <1>3, WriteSyncAppends DEF R!Next
<1>4. CASE WriteDelta
    BY <1>4, WriteDeltaAppends DEF R!Next
<1>5. CASE Receive
    BY <1>5, QuietStep DEF Receive, PassFrame, RotatingIdr, PlainIdr, DeltaFrame, library
<1>6. CASE CloseTest \/ CountFiles \/ FindOldest \/ RemoveOldest
           \/ AddTrack \/ AddParameterSets \/ UNCHANGED vars
    BY <1>6, QuietStep DEF CloseTest, CountFiles, FindOldest, RemoveOldest,
       AddTrack, AddParameterSets, vars, library
<1> QED
    BY <1>1, <1>2, <1>3, <1>4, <1>5, <1>6 DEF Next, Work

(* Behind its locations, failed creations and folder the recorder is       *)
(* Recording: full recordings one after the other, each led by a key       *)
(* frame, and none changed after it was finished.                          *)
THEOREM RecorderImplementsRecording == Spec => ImplementsRecording
<1>1. Init => R!Init
    BY DEF Init, R!Init, RecordingState
<1> QED
    BY <1>1, Invariant, RecordingStep, PTL DEF Spec, ImplementsRecording, R!Spec

-----------------------------------------------------------------------------
(* The folder: only a creation adds a name, and CountFiles lets a creation *)
(* through only while there is room.                                       *)
Names == DOMAIN files

Room ==
    /\ IsFiniteSet(Names) /\ Cardinality(Names) <= FileLimit
    /\ pc = "create" => Cardinality(Names) < FileLimit

LEMMA RoomStep ==
    ASSUME Room, [Next]_vars
    PROVE  Room'
<1> USE RecorderAssumption DEF Names
<1>1. CASE CountFiles
  <2>1. Cardinality(Names) \in Nat
      BY FS_CardinalityType DEF Room
  <2>2. UNCHANGED files /\ (pc' = "create" => ~Full(Cardinality(Names)))
      BY <1>1 DEF CountFiles, ScanFolder
  <2> QED
      BY <2>1, <2>2 DEF Room, Full
<1>2. ASSUME NEW now \in LocalTimes, CreateFile(now)
      PROVE  Room'
  <2>1. IsFiniteSet(Names) /\ Cardinality(Names) \in Nat /\ Cardinality(Names) < FileLimit
      BY <1>2, FS_CardinalityType DEF CreateFile, Room
  <2>2. pc' = "track"
      BY <1>2 DEF CreateFile
  <2>3. Names' = Names \/ Names' = Names \cup {FileName(now)}
      BY <1>2 DEF CreateFile, PutFile
  <2>4. CASE Names' = Names
      BY <2>1, <2>2, <2>4 DEF Room
  <2>5. CASE Names' = Names \cup {FileName(now)}
    <3>1. /\ IsFiniteSet(Names')
          /\ Cardinality(Names') = Cardinality(Names)
               \/ Cardinality(Names') = Cardinality(Names) + 1
        BY <2>1, <2>5, FS_AddElement
    <3> QED
        BY <2>1, <2>2, <3>1 DEF Room
  <2> QED
      BY <2>3, <2>4, <2>5
<1>3. CASE Receive
    BY <1>3 DEF Receive, PassFrame, RotatingIdr, PlainIdr, DeltaFrame, Room
<1>4. CASE CloseTest \/ Close \/ FindOldest \/ RemoveOldest \/ AddTrack
           \/ AddParameterSets \/ WriteSync \/ WriteDelta
    BY <1>4 DEF CloseTest, CloseTarget, Close, FindOldest, ScanFolder, RemoveOldest,
       AddTrack, AddParameterSets, AfterParams, WriteSync, WriteDelta, Room
<1>5. CASE UNCHANGED vars
    BY <1>5 DEF vars, Room
<1> QED
    BY <1>1, <1>2, <1>3, <1>4, <1>5 DEF Next, Work

(* create_mp4_file never lets the folder grow past g_file_number, though   *)
(* its remove deletes nothing.                                             *)
THEOREM FolderNeverOverfull == Spec => []FolderBounded
<1>1. Init => Room
    BY RecorderAssumption, FolderAssumption DEF Init, Room, Names
<1>2. Spec => []Room
    BY <1>1, RoomStep, PTL DEF Spec
<1>3. Room => FolderBounded
    BY DEF Room, Names, FolderBounded
<1> QED
    BY <1>2, <1>3, PTL

-----------------------------------------------------------------------------
(* What is behind the names, whatever the clock does: behind the name of a *)
(* stored recording is itself or a later one of the same second, and a     *)
(* recording found at the start is replaced only by one of its own second. *)
Holder(s) == files[FileName(born[s])]

Held ==
    /\ \A s \in Segments : IsStored(s) =>
          /\ born[s] \in LocalTimes /\ FileName(born[s]) \in DOMAIN files
          /\ Holder(s) \in Segments /\ Holder(s) >= s
          /\ IsStored(Holder(s)) /\ born[Holder(s)] = born[s]
    /\ OldFiles \subseteq DOMAIN files
    /\ \A f \in OldFiles : files[f] # NoFile =>
          \E s \in Segments : IsStored(s) /\ FileName(born[s]) = f

LEMMA CreateKeepsHeld ==
    ASSUME IInv, Held, NEW now \in LocalTimes, CreateFile(now)
    PROVE  Held'
<1> USE RecorderAssumption DEF Segments, NoFile
<1>1. tries \in Nat /\ tries + 1 \in Segments
    BY DEF IInv, TypeOK, Control, CreateFile, Rotating, Dangling
<1> SUFFICES ASSUME NEW new \in Segments, new = tries + 1
             PROVE  Held'
    BY <1>1
<1>2. \A s \in Segments : IsStored(s) => s < new
    BY <1>1 DEF IInv, Unborn, IsStored
<1>3. /\ status \in [Segments -> Statuses]
      /\ born \in [Segments -> LocalTimes \cup {NoTime}]
    BY DEF IInv, TypeOK, FolderTypeOK
<1>4. CASE /\ status' = [status EXCEPT ![new] = "open"]
           /\ born' = [born EXCEPT ![new] = now]
           /\ PutFile(FileName(now), new)
  <2>1. /\ IsStored(new)' /\ born'[new] = now
        /\ \A s \in Segments : IsStored(s) => IsStored(s)' /\ born'[s] = born[s]
        /\ \A s \in Segments : IsStored(s)' => s = new \/ IsStored(s)
      BY <1>2, <1>3, <1>4 DEF IsStored
  <2>2. /\ DOMAIN files' = DOMAIN files \cup {FileName(now)}
        /\ files'[FileName(now)] = new
        /\ \A f \in DOMAIN files : f # FileName(now) => files'[f] = files[f]
      BY <1>4 DEF PutFile
  <2>3. ASSUME NEW s \in Segments, IsStored(s)'
        PROVE  /\ born'[s] \in LocalTimes /\ FileName(born'[s]) \in DOMAIN files'
               /\ Holder(s)' \in Segments /\ Holder(s)' >= s
               /\ IsStored(Holder(s))' /\ born'[Holder(s)'] = born'[s]
    <3>1. CASE born'[s] = now
      <4>1. Holder(s)' = new
          BY <2>2, <3>1 DEF Holder
      <4>2. new >= s
          BY <1>1, <1>2, <2>1, <2>3
      <4> QED
          BY <2>1, <2>2, <3>1, <4>1, <4>2
    <3>2. CASE born'[s] # now
      <4>1. IsStored(s) /\ born'[s] = born[s]
          BY <2>1, <2>3, <3>2
      <4>2. /\ born[s] \in LocalTimes /\ FileName(born[s]) \in DOMAIN files
            /\ Holder(s) \in Segments /\ Holder(s) >= s
            /\ IsStored(Holder(s)) /\ born[Holder(s)] = born[s]
          BY <4>1 DEF Held
      <4>3. FileName(born[s]) # FileName(now)
          BY <3>2, <4>1, <4>2, NamesDiffer
      <4>4. Holder(s)' = Holder(s)
          BY <2>2, <4>1, <4>2, <4>3 DEF Holder
      <4>5. PICK h \in Segments : h = Holder(s)
          BY <4>2
      <4>7. IsStored(h)' /\ born'[h] = born[h]
          BY <2>1, <4>2, <4>5
      <4>6. FileName(born'[s]) \in DOMAIN files'
          BY <2>2, <4>1, <4>2
      <4> QED
          BY <4>1, <4>2, <4>4, <4>5, <4>6, <4>7
    <3> QED
        BY <3>1, <3>2
  <2>4. ASSUME NEW f \in OldFiles, files'[f] # NoFile
        PROVE  \E s \in Segments : IsStored(s)' /\ FileName(born'[s]) = f
    <3>1. CASE f = FileName(now)
        BY <2>1, <3>1
    <3>2. CASE f # FileName(now)
      <4>1. files[f] # NoFile
          BY <2>2, <2>4, <3>2 DEF Held
      <4>2. PICK s \in Segments : IsStored(s) /\ FileName(born[s]) = f
          BY <4>1 DEF Held
      <4> QED
          BY <2>1, <4>2
    <3> QED
        BY <3>1, <3>2
  <2>5. OldFiles \subseteq DOMAIN files'
      BY <2>2 DEF Held
  <2> QED
      BY <2>3, <2>4, <2>5 DEF Held
<1>5. CASE status' = [status EXCEPT ![new] = "failed"] /\ UNCHANGED <<files, born>>
  <2>1. \A s \in Segments : IsStored(s)' = IsStored(s)
      BY <1>2, <1>3, <1>5 DEF IsStored
  <2> QED
      BY <1>5, <2>1 DEF Held, Holder
<1> QED
    BY <1>4, <1>5 DEF CreateFile

LEMMA HeldStep ==
    ASSUME IInv, Held, [Next]_vars
    PROVE  Held'
<1>1. CASE \E now \in LocalTimes : CreateFile(now)
    BY <1>1, CreateKeepsHeld
<1>2. ASSUME UNCHANGED <<files, born>>,
             \A s \in Segments : IsStored(s)' = IsStored(s)
      PROVE  Held'
    BY <1>2 DEF Held, Holder
<1>3. CASE Close
  <2>1. handle \in Segments /\ status \in [Segments -> Statuses]
      BY <1>3, RecorderAssumption DEF IInv, TypeOK, Control, Close, Segments, NoFile
  <2>2. UNCHANGED <<files, born>>
      BY <1>3 DEF Close
  <2>3. \A s \in Segments : IsStored(s)' = IsStored(s)
      BY <1>3, <2>1 DEF Close, MP4Close, IsStored
  <2> QED
      BY <1>2, <2>2, <2>3
<1>4. CASE Receive
    BY <1>2, <1>4 DEF Receive, PassFrame, RotatingIdr, PlainIdr, DeltaFrame, library, IsStored
<1>5. CASE CloseTest \/ CountFiles \/ FindOldest \/ RemoveOldest
           \/ AddTrack \/ AddParameterSets \/ WriteSync \/ WriteDelta \/ UNCHANGED vars
    BY <1>2, <1>5 DEF CloseTest, CountFiles, FindOldest, RemoveOldest, AddTrack,
       AddParameterSets, WriteSync, WriteDelta, MP4WriteSample, vars, library, IsStored
<1> QED
    BY <1>1, <1>3, <1>4, <1>5 DEF Next, Work

(* Whatever the clock does between two creations (it runs on, stands       *)
(* still, is set back, or starts again in 1970), a recording is lost only  *)
(* to one that is begun in the very second of its own beginning, and the   *)
(* one being written is never lost.                                        *)
THEOREM KeptAtAnyClock == Spec => []KeptUnlessSameSecond
<1>1. Init => Held
    BY DEF Init, Held, IsStored
<1>2. Spec => [](IInv /\ Held)
    BY <1>1, HeldStep, Invariant, PTL DEF Spec
<1>3. IInv /\ Held => KeptUnlessSameSecond
  <2> SUFFICES ASSUME IInv, Held, NEW s \in Segments, IsStored(s), Holder(s) # s
               PROVE  /\ status[s] = "closed"
                      /\ \E r \in Segments : r > s /\ IsStored(r) /\ born[r] = born[s]
      BY DEF KeptUnlessSameSecond, Held, Holder
  <2>1. /\ Holder(s) \in Segments /\ Holder(s) > s
        /\ IsStored(Holder(s)) /\ born[Holder(s)] = born[s]
      BY RecorderAssumption DEF Held, Segments
  <2>2. Holder(s) <= tries
      BY <2>1, RecorderAssumption DEF IInv, TypeOK, Unborn, IsStored, Segments
  <2>3. s <= tries /\ s # handle
      BY <2>1, <2>2, RecorderAssumption DEF IInv, TypeOK, Control, Segments, NoFile
  <2>4. status[s] = "closed"
      BY <2>3 DEF IInv, Past, IsStored
  <2> QED
      BY <2>1, <2>4
<1> QED
    BY <1>2, <1>3, PTL

-----------------------------------------------------------------------------
(* The end of the process.  Two facts carry the proof.  However main's     *)
(* close and the callback interleave, the only segment of the running      *)
(* process that can be open is the one in hMP4File, which is the newest    *)
(* (Newest).  And as long as no packet comes after main began to close,    *)
(* hMP4File dangles only inside a rotation (Sound).                        *)

ShutdownTypes ==
    /\ pc \in Locations /\ mainPc \in MainLocations
    /\ handle \in {NoFile} \cup Segments /\ tries \in 0 .. MaxSegments
    /\ status \in [Segments -> Statuses]
    /\ late \in BOOLEAN /\ misused \in BOOLEAN
    /\ unclean \in Nat /\ lost \subseteq Segments

Newest ==
    /\ handle # NoFile => handle = tries
    /\ \A s \in Segments \ lost : status[s] = "open" => s = handle
    /\ \A s \in lost : s <= tries /\ s # handle
    /\ pc \in Dangling => \A s \in Segments \ lost : status[s] # "open"
    /\ pc = "close" => handle # NoFile
    /\ pc \in {"closeTest", "close", "count", "find", "remove", "create"} =>
           tries < MaxSegments

Sound ==
    /\ ~misused
    /\ handle # NoFile /\ pc \notin Dangling => status[handle] = "open"

Quiet ==
    /\ mainPc = "getchar" => Sound
    /\ ~late /\ mainPc \in {"closeTest", "close"} => Sound /\ pc = "idle"
    /\ ~late /\ mainPc = "close" => handle # NoFile
    /\ ~late /\ mainPc \in {"joining", "exited"} =>
           /\ ~misused
           /\ \A s \in Segments \ lost : status[s] # "open"

Losses == IsFiniteSet(lost) /\ Cardinality(lost) <= unclean

ShutdownIInv == ShutdownTypes /\ Newest /\ Quiet /\ Losses

-----------------------------------------------------------------------------
(* The callback, whatever main does.                                       *)
LEMMA CallbackTypes ==
    ASSUME ShutdownTypes, Newest, Next
    PROVE  /\ pc' \in Locations /\ misused' \in BOOLEAN
           /\ handle' \in {NoFile} \cup Segments /\ tries' \in 0 .. MaxSegments
           /\ status' \in [Segments -> Statuses]
<1> USE RecorderAssumption DEF ShutdownTypes, Segments, NoFile, Locations, Statuses
<1>1. CASE Receive
    BY <1>1 DEF Receive, PassFrame, RotatingIdr, PlainIdr, DeltaFrame, library
<1>2. CASE CloseTest \/ CountFiles \/ FindOldest \/ RemoveOldest
    BY <1>2 DEF CloseTest, CloseTarget, CountFiles, FindOldest, ScanFolder,
       RemoveOldest, library
<1>3. CASE Close
    BY <1>3 DEF Close, MP4Close
<1>4. ASSUME NEW now \in LocalTimes, CreateFile(now)
      PROVE  /\ pc' \in Locations /\ misused' \in BOOLEAN
             /\ handle' \in {NoFile} \cup Segments /\ tries' \in 0 .. MaxSegments
             /\ status' \in [Segments -> Statuses]
    BY <1>4 DEF CreateFile, HandleAfterFailure, Newest
<1>5. CASE AddTrack \/ AddParameterSets
    BY <1>5 DEF AddTrack, AddParameterSets, AfterParams, UsesClosed, library
<1>6. CASE WriteSync \/ WriteDelta
    BY <1>6 DEF WriteSync, WriteDelta, MP4WriteSample, UsesClosed
<1> QED
    BY <1>1, <1>2, <1>3, <1>4, <1>5, <1>6 DEF Next, Work

LEMMA CallbackNewest ==
    ASSUME ShutdownTypes, Newest, Next, UNCHANGED lost
    PROVE  Newest'
<1> USE RecorderAssumption DEF ShutdownTypes, Segments, NoFile, Dangling, Newest
<1>1. CASE Receive
    BY <1>1 DEF Receive, PassFrame, RotatingIdr, PlainIdr, DeltaFrame, library
<1>2. CASE CloseTest \/ CountFiles \/ FindOldest \/ RemoveOldest
    BY <1>2 DEF CloseTest, CloseTarget, CountFiles, FindOldest, ScanFolder,
       RemoveOldest, library
<1>3. CASE Close
    BY <1>3 DEF Close, MP4Close
<1>4. ASSUME NEW now \in LocalTimes, CreateFile(now)
      PROVE  Newest'
    BY <1>4 DEF CreateFile, HandleAfterFailure
<1>5. CASE AddTrack \/ AddParameterSets
    BY <1>5 DEF AddTrack, AddParameterSets, AfterParams, library
<1>6. CASE WriteSync \/ WriteDelta
    BY <1>6 DEF WriteSync, WriteDelta, MP4WriteSample
<1> QED
    BY <1>1, <1>2, <1>3, <1>4, <1>5, <1>6 DEF Next, Work

LEMMA CallbackSound ==
    ASSUME ShutdownTypes, Newest, Sound, Next
    PROVE  Sound'
<1> USE RecorderAssumption DEF ShutdownTypes, Segments, NoFile, Dangling, Sound
<1>1. CASE Receive
    BY <1>1 DEF Receive, PassFrame, RotatingIdr, PlainIdr, DeltaFrame, library
<1>2. CASE CloseTest \/ CountFiles \/ FindOldest \/ RemoveOldest
    BY <1>2 DEF CloseTest, CloseTarget, CountFiles, FindOldest, ScanFolder,
       RemoveOldest, library
<1>3. CASE Close
    BY <1>3 DEF Close, MP4Close, Newest
<1>4. ASSUME NEW now \in LocalTimes, CreateFile(now)
      PROVE  Sound'
    BY <1>4 DEF CreateFile, HandleAfterFailure, Newest
<1>5. CASE AddTrack \/ AddParameterSets
    BY <1>5 DEF AddTrack, AddParameterSets, AfterParams, UsesClosed, library
<1>6. CASE WriteSync \/ WriteDelta
    BY <1>6 DEF WriteSync, WriteDelta, MP4WriteSample, UsesClosed
<1> QED
    BY <1>1, <1>2, <1>3, <1>4, <1>5, <1>6 DEF Next, Work

-----------------------------------------------------------------------------
LEMMA ShutdownInitInvariant == InitShutdown => ShutdownIInv
<1> SUFFICES ASSUME InitShutdown
             PROVE  ShutdownIInv
    OBVIOUS
<1> USE RecorderAssumption DEF InitShutdown, Init, Segments, NoFile
<1>1. ShutdownTypes
  <2>1. status \in [Segments -> Statuses]
      BY DEF Statuses
  <2>2. pc \in Locations /\ mainPc \in MainLocations /\ tries \in 0 .. MaxSegments
      BY DEF Locations, MainLocations
  <2>3. /\ handle \in {NoFile} \cup Segments /\ lost \subseteq Segments
        /\ unclean \in Nat
      OBVIOUS
  <2>4. late \in BOOLEAN /\ misused \in BOOLEAN
      OBVIOUS
  <2> QED
      BY <2>1, <2>2, <2>3, <2>4 DEF ShutdownTypes
<1>2. Newest /\ Quiet
    BY DEF Newest, Quiet, Sound, Dangling
<1>3. Losses
    BY FS_EmptySet DEF Losses
<1> QED
    BY <1>1, <1>2, <1>3 DEF ShutdownIInv

LEMMA CallbackStep ==
    ASSUME ShutdownIInv, Callback
    PROVE  ShutdownIInv'
<1> USE DEF ShutdownIInv
<1>1. Next /\ mainPc # "exited" /\ UNCHANGED <<unclean, lost>>
    BY DEF Callback
<1>2. ShutdownTypes'
    BY <1>1, CallbackTypes DEF Callback, ShutdownTypes, MainLocations, Closing
<1>3. Newest'
    BY <1>1, CallbackNewest
<1>4. Quiet'
  <2>1. mainPc' \in {"getchar", "exited"} \/ late'
      BY <1>1 DEF Callback, Closing, ShutdownTypes, MainLocations
  <2>2. mainPc' = "exited" => late'
      BY <1>1 DEF Callback
  <2>3. mainPc' = "getchar" => Sound'
      BY <1>1, CallbackSound DEF Callback, Quiet
  <2> QED
      BY <2>1, <2>2, <2>3 DEF Quiet
<1>5. Losses'
    BY <1>1 DEF Losses
<1> QED
    BY <1>2, <1>3, <1>4, <1>5

LEMMA MainStep ==
    ASSUME ShutdownIInv, BeginDestroy \/ MainCloseTest \/ Exit \/ PowerCut
    PROVE  ShutdownIInv'
<1> USE DEF ShutdownIInv, BeginDestroy, MainCloseTest, Exit, PowerCut, vars, library
<1>1. ShutdownTypes'
    BY DEF ShutdownTypes, MainLocations
<1>2. Newest'
    BY DEF Newest
<1>3. Quiet'
  <2>1. CASE BeginDestroy
    <3>1. Sound /\ mainPc' = "closeTest" /\ late' = (pc # "idle")
        BY <2>1 DEF Quiet
    <3>2. UNCHANGED <<pc, handle, status, misused>>
        BY <2>1
    <3>3. Sound'
        BY <3>1, <3>2 DEF Sound
    <3>4. ~late' => pc' = "idle"
        BY <3>1, <3>2
    <3> QED
        BY <3>1, <3>3, <3>4 DEF Quiet
  <2>3. CASE Exit \/ PowerCut
      BY <2>3 DEF Quiet, Sound
  <2>2. CASE MainCloseTest
    <3>1. handle = NoFile => \A s \in Segments \ lost : status[s] # "open"
        BY DEF Newest, Segments, NoFile
    <3>2. mainPc' = "joining" => handle = NoFile
        BY <2>2 DEF CloseTarget
    <3>3. mainPc' = "close" => handle # NoFile
        BY <2>2 DEF CloseTarget
    <3>4. mainPc' \in {"close", "joining"} /\ (~late => Sound /\ pc = "idle")
        BY <2>2 DEF Quiet
    <3> QED
        BY <2>2, <3>1, <3>2, <3>3, <3>4 DEF Quiet, Sound
  <2> QED
      BY <2>1, <2>2, <2>3
<1>4. Losses'
    BY DEF Losses
<1> QED
    BY <1>1, <1>2, <1>3, <1>4

LEMMA MainCloseStep ==
    ASSUME ShutdownIInv, MainClose
    PROVE  ShutdownIInv'
<1> USE RecorderAssumption DEF ShutdownIInv, MainClose, MP4Close, Segments, NoFile
<1>1. ShutdownTypes'
    BY DEF ShutdownTypes, MainLocations, Statuses
<1>2. Newest'
    BY DEF Newest, ShutdownTypes, Dangling
<1>3. Quiet'
    BY DEF Quiet, Sound, ShutdownTypes, Dangling, Newest
<1>4. Losses'
    BY DEF Losses
<1> QED
    BY <1>1, <1>2, <1>3, <1>4

(* At most one segment of a process is open when it ends, none when it     *)
(* ended quietly.                                                          *)
LEMMA OneLeftOpen ==
    ASSUME ShutdownTypes, Newest
    PROVE  IsFiniteSet(LeftOpen) /\ Cardinality(LeftOpen) <= 1
<1>1. LeftOpen \subseteq {handle}
    BY DEF LeftOpen, Newest
<1>2. IsFiniteSet({handle}) /\ Cardinality({handle}) = 1
    BY FS_Singleton
<1> QED
    BY <1>1, <1>2, FS_Subset

LEMMA RestartStep ==
    ASSUME ShutdownIInv, Restarted
    PROVE  ShutdownIInv'
<1> USE RecorderAssumption DEF ShutdownIInv, Segments, NoFile
<1>1. ShutdownTypes'
  <2>1. /\ pc' = "idle" /\ mainPc' = "getchar" /\ handle' = NoFile
        /\ late' = FALSE /\ misused' = FALSE /\ UNCHANGED <<status, tries>>
      BY DEF Restarted, library
  <2>2. unclean' \in Nat
      BY DEF ShutdownTypes, Restarted
  <2>3. lost' \subseteq Segments
      BY DEF ShutdownTypes, Restarted, LeftOpen
  <2>4. late' \in BOOLEAN /\ misused' \in BOOLEAN
      BY <2>1
  <2> QED
      BY <2>1, <2>2, <2>3, <2>4 DEF ShutdownTypes, MainLocations, Locations
<1>2. \A s \in Segments \ lost' : status'[s] # "open"
    BY DEF Restarted, LeftOpen, library
<1>3. \A s \in lost' : s <= tries'
    BY DEF Restarted, LeftOpen, Newest, ShutdownTypes
<1>4. Newest'
    BY <1>1, <1>2, <1>3 DEF Newest, Restarted, Dangling, ShutdownTypes
<1>5. Quiet'
    BY DEF Quiet, Sound, Restarted
<1>6. Losses'
  <2>1. IsFiniteSet(LeftOpen) /\ Cardinality(LeftOpen) <= 1
      BY OneLeftOpen
  <2>2. CASE late
    <3>1. /\ IsFiniteSet(lost \cup LeftOpen)
          /\ Cardinality(lost \cup LeftOpen) <= Cardinality(lost) + Cardinality(LeftOpen)
      <4>1. /\ IsFiniteSet(lost \cup LeftOpen)
            /\ Cardinality(lost \cup LeftOpen) = Cardinality(lost)
                   + Cardinality(LeftOpen) - Cardinality(lost \cap LeftOpen)
          BY <2>1, FS_Union DEF Losses
      <4>2. IsFiniteSet(lost \cap LeftOpen)
          BY <2>1, FS_Subset
      <4> QED
          BY <2>1, <4>1, <4>2, FS_CardinalityType DEF Losses
    <3>2. Cardinality(lost) \in Nat /\ Cardinality(LeftOpen) \in Nat
          /\ Cardinality(lost \cup LeftOpen) \in Nat
        BY <2>1, <3>1, FS_CardinalityType DEF Losses
    <3>3. lost' = lost \cup LeftOpen /\ unclean' = unclean + 1
        BY <2>2 DEF Restarted
    <3> QED
        BY <2>1, <3>1, <3>2, <3>3 DEF Losses, ShutdownTypes
  <2>3. CASE ~late
    <3>1. LeftOpen = {}
        BY <2>3 DEF Restarted, Quiet, LeftOpen
    <3> QED
        BY <2>3, <3>1 DEF Restarted, Losses
  <2> QED
      BY <2>2, <2>3 DEF ShutdownTypes
<1> QED
    BY <1>1, <1>4, <1>5, <1>6

LEMMA ShutdownStepInvariant ==
    ASSUME ShutdownIInv, [NextShutdown]_shutdownVars
    PROVE  ShutdownIInv'
<1>1. CASE NextShutdown
    BY <1>1, CallbackStep, MainStep, MainCloseStep, RestartStep DEF NextShutdown, Destroy
<1>2. CASE UNCHANGED shutdownVars
    BY <1>2 DEF shutdownVars, vars, library, ShutdownIInv, ShutdownTypes, Newest, Quiet,
                Sound, Losses
<1> QED
    BY <1>1, <1>2

LEMMA ShutdownInvariant == SpecShutdown => []ShutdownIInv
BY ShutdownInitInvariant, ShutdownStepInvariant, PTL DEF SpecShutdown

-----------------------------------------------------------------------------
(* A shutdown without late packets closes everything, exactly once, in     *)
(* every configuration and after any history of crashes and restarts.      *)
THEOREM QuietEndClosesAll == SpecShutdown => []QuietShutdownCloses
<1>1. ShutdownIInv => QuietShutdownCloses
    BY DEF ShutdownIInv, Quiet, QuietShutdownCloses, LeftOpen
<1> QED
    BY <1>1, ShutdownInvariant, PTL

(* Every unclean end of a process costs one recording at the most.         *)
THEOREM UncleanEndCostsOne == SpecShutdown => []OneLostPerEnd
<1>1. ShutdownIInv => OneLostPerEnd
    BY OneLeftOpen DEF ShutdownIInv, Losses, OneLostPerEnd
<1> QED
    BY <1>1, ShutdownInvariant, PTL

=============================================================================
