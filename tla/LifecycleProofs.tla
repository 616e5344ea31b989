--------------------------- MODULE LifecycleProofs ---------------------------
(***************************************************************************)
(* Proofs about Lifecycle, for every pool of buffers, every bound on the   *)
(* waiting packets and every set of set-up calls that fail.                *)
(*                                                                         *)
(* What is set up is a function of main's place in its program (UpInv), so *)
(* the order of the program's operations decides what the threads and the  *)
(* bindings rest on.                                                       *)
(***************************************************************************)
EXTENDS Lifecycle, FiniteSetTheorems, TLAPS

-----------------------------------------------------------------------------
(* The program, operation by operation.                                    *)

(* Main has 31 operations.                                                 *)
LEMMA ProgramLength == Len(Program) = 31
  BY DEF Program, Setup, Keys, Stop, Destroy

(* The first 17 are the set-up calls.                                      *)
LEMMA SetupFirst == \A i \in 1 .. 17 : Program[i] = Setup[i]
  BY DEF Program, Setup, Keys, Stop, Destroy

(* The last 11 are those of destroy_all.                                   *)
LEMMA DestroyLast == \A i \in 21 .. 31 : Program[i] = Destroy[i - 20]
  BY DEF Program, Setup, Keys, Stop, Destroy

(* Between them main waits for two keys and clears the flag.               *)
LEMMA KeysAndStop ==
    Program[18] = <<"key", 0>> /\ Program[19] = <<"key", 0>> /\ Program[20] = <<"stop", 0>>
<1>1. Program[18] = <<"key", 0>>
  BY DEF Program, Setup, Keys, Stop, Destroy
<1>2. Program[19] = <<"key", 0>>
  BY DEF Program, Setup, Keys, Stop, Destroy
<1>3. Program[20] = <<"stop", 0>>
  BY DEF Program, Setup, Keys, Stop, Destroy
<1> QED
  BY <1>1, <1>2, <1>3

(* Set-up calls 1 to 15 bring resources up, 16 and 17 create the threads.  *)
LEMMA SetupTable ==
    /\ \A i \in 1 .. 15 : Program[i][1] = "up"
    /\ Program[1][2] = <<"model", 0>> /\ Program[2][2] = <<"list", 0>>
    /\ Program[3][2] = <<"isp", 0>> /\ Program[4][2] = <<"rtsp", 0>>
    /\ Program[5][2] = <<"sys", 0>>
    /\ Program[6][2] = Vi(0) /\ Program[7][2] = Vi(1)
    /\ Program[8][2] = Rga(0) /\ Program[9][2] = Bind(0)
    /\ Program[10][2] = Rga(1) /\ Program[11][2] = Bind(1)
    /\ Program[12][2] = Stream(1) /\ Program[13][2] = Stream(0)
    /\ Program[14][2] = <<"venc", 0>> /\ Program[15][2] = <<"callback", 0>>
    /\ Program[16] = <<"create", "rknn">> /\ Program[17] = <<"create", "observer">>
  BY SetupFirst DEF Setup

(* destroy_all joins the threads first and takes down after that.          *)
LEMMA DestroyTable ==
    /\ Program[21] = <<"join", "observer">> /\ Program[22] = <<"join", "rknn">>
    /\ \A i \in 23 .. 31 : Program[i][1] = "down"
    /\ Program[23][2] = <<"rtsp", 0>>
    /\ Program[24][2] = Bind(0) /\ Program[25][2] = Bind(1)
  BY DestroyLast DEF Destroy

(* Where each kind of operation is in the program.                         *)
LEMMA Kinds ==
    \A i \in 1 .. 31 :
        /\ Program[i][1] = "up" <=> i \in 1 .. 15
        /\ Program[i][1] = "create" <=> i \in 16 .. 17
        /\ Program[i][1] = "key" <=> i \in 18 .. 19
        /\ Program[i][1] = "stop" <=> i = 20
        /\ Program[i][1] = "join" <=> i \in 21 .. 22
        /\ Program[i][1] = "down" <=> i \in 23 .. 31
<1> TAKE i \in 1 .. 31
<1>1. CASE i \in 1 .. 15
  BY <1>1, SetupTable
<1>2. CASE i \in 16 .. 17
  BY <1>2, SetupTable
<1>3. CASE i \in 18 .. 20
  BY <1>3, KeysAndStop
<1>4. CASE i \in 21 .. 22
  BY <1>4, DestroyTable
<1>5. CASE i \in 23 .. 31
  BY <1>5, DestroyTable
<1> QED
  BY <1>1, <1>2, <1>3, <1>4, <1>5

(* Only resources are set up.                                              *)
LEMMA UpsAreResources == \A i \in 1 .. 15 : Program[i][2] \in Resources
<1>1. \A r \in {"model", "list", "isp", "rtsp", "sys", "venc", "callback"} :
         <<r, 0>> \in Resources
  BY DEF Resources, Single
<1>2. \A c \in {0, 1} : /\ Vi(c) \in Resources /\ Rga(c) \in Resources
                        /\ Bind(c) \in Resources /\ Stream(c) \in Resources
  BY DEF Resources, Channels, Vi, Rga, Bind, Stream
<1> QED
  BY <1>1, <1>2, SetupTable

-----------------------------------------------------------------------------
(* What is set up, as a function of main's place.                          *)

(* Before operation n, r has been set up and not taken down since.         *)
Stands(r, n) ==
    \E i \in 1 .. n - 1 :
        /\ Program[i][1] = "up" /\ Program[i][2] = r
        /\ \A k \in i + 1 .. n - 1 :
              Program[k][1] = "down" => r \notin Removed(Program[k][2])

UpInv == up = {r \in Resources : Stands(r, at)}

(* A set-up call adds its resource.                                        *)
LEMMA StandsAfterUp ==
    ASSUME NEW n \in 1 .. 31, Program[n][1] = "up", NEW r
    PROVE  Stands(r, n + 1) <=> Stands(r, n) \/ r = Program[n][2]
<1>1. ASSUME Stands(r, n + 1) PROVE Stands(r, n) \/ r = Program[n][2]
  <2>1. PICK i \in 1 .. n : /\ Program[i][1] = "up" /\ Program[i][2] = r
                            /\ \A k \in i + 1 .. n :
                                  Program[k][1] = "down" => r \notin Removed(Program[k][2])
    BY <1>1 DEF Stands
  <2> QED
    BY <2>1 DEF Stands
<1>2. ASSUME Stands(r, n) PROVE Stands(r, n + 1)
  <2>1. PICK i \in 1 .. n - 1 : /\ Program[i][1] = "up" /\ Program[i][2] = r
                                /\ \A k \in i + 1 .. n - 1 :
                                      Program[k][1] = "down" => r \notin Removed(Program[k][2])
    BY <1>2 DEF Stands
  <2>2. \A k \in i + 1 .. n : k \in i + 1 .. n - 1 \/ k = n
    OBVIOUS
  <2>3. Program[n][1] # "down"
    OBVIOUS
  <2> QED
    BY <2>1, <2>2, <2>3 DEF Stands
<1>3. ASSUME r = Program[n][2] PROVE Stands(r, n + 1)
  BY <1>3 DEF Stands
<1> QED
  BY <1>1, <1>2, <1>3

(* A teardown call removes what it takes down.                             *)
LEMMA StandsAfterDown ==
    ASSUME NEW n \in 1 .. 31, Program[n][1] = "down", NEW r
    PROVE  Stands(r, n + 1) <=> Stands(r, n) /\ r \notin Removed(Program[n][2])
<1>1. ASSUME Stands(r, n + 1) PROVE Stands(r, n) /\ r \notin Removed(Program[n][2])
  <2>1. PICK i \in 1 .. n : /\ Program[i][1] = "up" /\ Program[i][2] = r
                            /\ \A k \in i + 1 .. n :
                                  Program[k][1] = "down" => r \notin Removed(Program[k][2])
    BY <1>1 DEF Stands
  <2>2. i # n
    BY <2>1
  <2> QED
    BY <2>1, <2>2 DEF Stands
<1>2. ASSUME Stands(r, n), r \notin Removed(Program[n][2]) PROVE Stands(r, n + 1)
  <2>1. PICK i \in 1 .. n - 1 : /\ Program[i][1] = "up" /\ Program[i][2] = r
                                /\ \A k \in i + 1 .. n - 1 :
                                      Program[k][1] = "down" => r \notin Removed(Program[k][2])
    BY <1>2 DEF Stands
  <2>2. \A k \in i + 1 .. n : k \in i + 1 .. n - 1 \/ k = n
    OBVIOUS
  <2> QED
    BY <1>2, <2>1, <2>2 DEF Stands
<1> QED
  BY <1>1, <1>2

(* Every other operation leaves the resources alone.                       *)
LEMMA StandsOtherwise ==
    ASSUME NEW n \in 1 .. 31, Program[n][1] \notin {"up", "down"}, NEW r
    PROVE  Stands(r, n + 1) <=> Stands(r, n)
<1>1. ASSUME Stands(r, n + 1) PROVE Stands(r, n)
  <2>1. PICK i \in 1 .. n : /\ Program[i][1] = "up" /\ Program[i][2] = r
                            /\ \A k \in i + 1 .. n :
                                  Program[k][1] = "down" => r \notin Removed(Program[k][2])
    BY <1>1 DEF Stands
  <2>2. i # n
    BY <2>1
  <2> QED
    BY <2>1, <2>2 DEF Stands
<1>2. ASSUME Stands(r, n) PROVE Stands(r, n + 1)
  <2>1. PICK i \in 1 .. n - 1 : /\ Program[i][1] = "up" /\ Program[i][2] = r
                                /\ \A k \in i + 1 .. n - 1 :
                                      Program[k][1] = "down" => r \notin Removed(Program[k][2])
    BY <1>2 DEF Stands
  <2>2. \A k \in i + 1 .. n : k \in i + 1 .. n - 1 \/ k = n
    OBVIOUS
  <2> QED
    BY <2>1, <2>2 DEF Stands
<1> QED
  BY <1>1, <1>2

(* Until the threads are joined nothing is taken down.                     *)
LEMMA AllStandUntilJoined ==
    ASSUME NEW n \in 16 .. 23, NEW i \in 1 .. 15
    PROVE  Stands(Program[i][2], n)
<1>1. Program[i][1] = "up"
  BY Kinds
<1>2. \A k \in i + 1 .. n - 1 : Program[k][1] # "down"
  BY Kinds
<1> QED
  BY <1>1, <1>2 DEF Stands

(* While a thread may run, what it needs stands.                           *)
LEMMA NeedsStand ==
    ASSUME NEW n \in 16 .. 23, NEW t \in Threads, NEW r \in Needs(t)
    PROVE  r \in Resources /\ Stands(r, n)
<1>1. \E i \in 1 .. 15 : r = Program[i][2]
  <2>1. CASE t = "rknn"
    BY <2>1, SetupTable DEF Needs, ChannelOf, Threads
  <2>2. CASE t = "observer"
    BY <2>2, SetupTable DEF Needs, ChannelOf, Threads
  <2> QED
    BY <2>1, <2>2 DEF Threads
<1> QED
  BY <1>1, AllStandUntilJoined, UpsAreResources

(* A binding stands only while both of its ends do.                        *)
LEMMA BindingStands ==
    ASSUME NEW n \in 1 .. 32, NEW c \in Channels, Stands(Bind(c), n)
    PROVE  Stands(Vi(c), n) /\ Stands(Rga(c), n)
<1>1. PICK i \in 1 .. n - 1 : /\ Program[i][1] = "up" /\ Program[i][2] = Bind(c)
                              /\ \A k \in i + 1 .. n - 1 :
                                    Program[k][1] = "down" => Bind(c) \notin Removed(Program[k][2])
  BY DEF Stands
<1>2. i = 9 + 2 * c
  <2>1. i \in 1 .. 15
    BY <1>1, Kinds
  <2> QED
    BY <1>1, <2>1, SetupTable DEF Channels, Vi, Rga, Bind, Stream
<1>3. n <= 24 + c
  <2>1. Program[24 + c][1] = "down" /\ Bind(c) \in Removed(Program[24 + c][2])
    BY DestroyTable DEF Channels, Removed, Bind, Vi
  <2> QED
    BY <1>1, <1>2, <2>1 DEF Channels
<1>4. ASSUME NEW r \in {Vi(c), Rga(c)}, NEW k \in 1 .. n - 1, Program[k][1] = "down"
      PROVE  r \notin Removed(Program[k][2])
  <2>1. k = 23 \/ (k = 24 /\ c = 1)
    BY <1>3, <1>4, Kinds DEF Channels
  <2>2. Removed(<<"rtsp", 0>>) = {<<"rtsp", 0>>} /\ Removed(Bind(0)) = {Bind(0)}
    BY DEF Removed, Vi, Bind
  <2>3. r # <<"rtsp", 0>> /\ r # Bind(0)
    BY DEF Vi, Rga, Bind
  <2> QED
    BY <2>1, <2>2, <2>3, DestroyTable
<1>5. n > 9 + 2 * c
  BY <1>1, <1>2 DEF Channels
<1>6. Stands(Vi(c), n)
  <2>1. 6 + c \in 1 .. n - 1 /\ Program[6 + c][1] = "up" /\ Program[6 + c][2] = Vi(c)
    BY <1>5, SetupTable DEF Channels
  <2>2. \A k \in 6 + c + 1 .. n - 1 : k \in 1 .. n - 1
    BY DEF Channels
  <2> QED
    BY <1>4, <2>1, <2>2 DEF Stands
<1>7. Stands(Rga(c), n)
  <2>1. 8 + 2 * c \in 1 .. n - 1 /\ Program[8 + 2 * c][1] = "up" /\ Program[8 + 2 * c][2] = Rga(c)
    BY <1>5, SetupTable DEF Channels
  <2>2. \A k \in 8 + 2 * c + 1 .. n - 1 : k \in 1 .. n - 1
    BY DEF Channels
  <2> QED
    BY <1>4, <2>1, <2>2 DEF Stands
<1> QED
  BY <1>6, <1>7

(* Packets reach the callback only after every set-up call.                *)
LEMMA CallbackLast ==
    ASSUME NEW n \in 1 .. 32, Stands(<<"callback", 0>>, n)
    PROVE  n > 15
<1>1. PICK i \in 1 .. n - 1 : Program[i][1] = "up" /\ Program[i][2] = <<"callback", 0>>
  BY DEF Stands
<1>2. i \in 1 .. 15
  BY <1>1, Kinds
<1>3. i = 15
  BY <1>1, <1>2, SetupTable DEF Vi, Rga, Bind, Stream
<1> QED
  BY <1>3

-----------------------------------------------------------------------------
(* Type correctness.                                                       *)

Owners == [Channels -> [Buffers -> SUBSET ({"queue", "venc"} \cup Threads)]]

(* The owners of one buffer change to other owners.                        *)
LEMMA OwnersUpdate ==
    ASSUME NEW o \in Owners, NEW c \in Channels, NEW b \in Buffers,
           NEW S \in SUBSET ({"queue", "venc"} \cup Threads)
    PROVE  [o EXCEPT ![c][b] = S] \in Owners
  BY DEF Owners

(* A packet stays counted until the callback has recorded it.              *)
TypeInv == TypeOK /\ (callback = "record" => packets > 0)

(* The types hold at the start.                                            *)
LEMMA InitType == Init => TypeInv
<1> SUFFICES ASSUME Init PROVE TypeInv
  OBVIOUS
<1>1. owners \in Owners
  BY DEF Init, Owners, Threads
<1>2. packets \in 0 .. MaxPackets
  BY LifecycleAssumption DEF Init
<1>3. at \in 1 .. Len(Program) + 1
  BY ProgramLength DEF Init
<1> QED
  BY <1>1, <1>2, <1>3 DEF Init, TypeInv, TypeOK, Owners

(* Every action keeps the types.                                           *)
LEMMA NextType == TypeInv /\ [Next]_vars => TypeInv'
<1> SUFFICES ASSUME TypeInv, [Next]_vars PROVE TypeInv'
  OBVIOUS
<1> USE DEF TypeInv
<1> USE ProgramLength, LifecycleAssumption
<1>1. CASE Succeed
  <2>1. Arg \in Resources
    BY <1>1, Kinds, UpsAreResources DEF Succeed, Op, Arg, TypeOK
  <2> QED
    BY <1>1, <2>1 DEF Succeed, Op, TypeOK
<1>2. CASE Fail
  BY <1>2 DEF Fail, TypeOK
<1>3. CASE Create
  <2>1. Arg \in Threads
    BY <1>3, Kinds, SetupTable DEF Create, Op, Arg, TypeOK, Threads
  <2> QED
    BY <1>3, <2>1 DEF Create, Op, TypeOK
<1>4. CASE ClearFlag
  <2>1. at' \in 1 .. Len(Program) + 1
    BY <1>4 DEF ClearFlag, Op, TypeOK
  <2>2. flag' \in BOOLEAN
    BY <1>4 DEF ClearFlag
  <2> QED
    BY <1>4, <2>1, <2>2 DEF ClearFlag, TypeOK
<1>5. CASE Join
  BY <1>5 DEF Join, Op, TypeOK
<1>6. CASE TearDown
  <2>1. drained' \in BOOLEAN
    BY <1>6 DEF TearDown, TypeOK
  <2>2. up' \subseteq Resources /\ at' \in 1 .. Len(Program) + 1
    BY <1>6 DEF TearDown, Op, TypeOK
  <2> QED
    BY <1>6, <2>1, <2>2 DEF TearDown, TypeOK
<1>7. CASE Return
  BY <1>7 DEF Return, TypeOK
<1>8. CASE PressKey
  BY <1>8 DEF PressKey, Op, TypeOK
<1>9. CASE Interrupt
  BY <1>9 DEF Interrupt, TypeOK
<1>10. ASSUME NEW t \in Threads, TestFlag(t) PROVE TypeInv'
  BY <1>10 DEF TestFlag, Step, TypeOK
<1>11. ASSUME NEW t \in Threads, Release(t) PROVE TypeInv'
  BY <1>11 DEF Release, Released, Step, TypeOK
<1>12. CASE Infer
  BY <1>12 DEF Infer, Step, TypeOK
<1>13. CASE Send
  <2>1. owners \in Owners
    BY DEF TypeOK, Owners
  <2>2. \A b \in Buffers : owners[0][b] \cup {"venc"} \in SUBSET ({"queue", "venc"} \cup Threads)
    BY DEF TypeOK, Channels
  <2>3. owners' \in Owners
    BY <1>13, <2>1, <2>2, OwnersUpdate DEF Send, Channels
  <2> QED
    BY <1>13, <2>3 DEF Send, Step, TypeOK, Owners
<1>14. ASSUME NEW t \in Threads, Get(t) PROVE TypeInv'
  <2>1. owners \in Owners /\ ChannelOf[t] \in Channels
    BY DEF TypeOK, Owners, ChannelOf, Channels
  <2>2. {t} \in SUBSET ({"queue", "venc"} \cup Threads)
    OBVIOUS
  <2>3. PICK b \in Buffers : owners' = [owners EXCEPT ![ChannelOf[t]][b] = {t}]
    BY <1>14 DEF Get
  <2>4. owners' \in Owners
    BY <2>1, <2>2, <2>3, OwnersUpdate
  <2> QED
    BY <1>14, <2>4 DEF Get, Step, TypeOK, Owners
<1>15. ASSUME NEW t \in Threads, GetNull(t) PROVE TypeInv'
  BY <1>15 DEF GetNull, AfterNull, Step, TypeOK
<1>16. ASSUME NEW c \in Channels, Camera(c) PROVE TypeInv'
  BY <1>16 DEF Camera, TypeOK
<1>17. CASE Encode
  <2>1. owners \in Owners
    BY DEF TypeOK, Owners
  <2>2. \A b \in Buffers : owners[0][b] \ {"venc"} \in SUBSET ({"queue", "venc"} \cup Threads)
    BY DEF TypeOK, Channels
  <2>3. owners' \in Owners
    BY <1>17, <2>1, <2>2, OwnersUpdate DEF Encode, Channels
  <2>4. packets' \in 1 .. MaxPackets
    BY <1>17 DEF Encode, TypeOK
  <2> QED
    BY <1>17, <2>3, <2>4 DEF Encode, TypeOK, Owners
<1>18. CASE Deliver
  BY <1>18 DEF Deliver, TypeOK
<1>19. CASE Record
  BY <1>19 DEF Record, TypeOK
<1>20. CASE UNCHANGED vars
  BY <1>20 DEF vars, TypeOK
<1> QED
  BY <1>1, <1>2, <1>3, <1>4, <1>5, <1>6, <1>7, <1>8, <1>9, <1>10, <1>11, <1>12, <1>13,
     <1>14, <1>15, <1>16, <1>17, <1>18, <1>19, <1>20
     DEF Next, Main, Worker, Library, Delivery

-----------------------------------------------------------------------------
(* What is up follows from where main is.                                  *)

(* Nothing is up before the first operation.                               *)
LEMMA InitUp == Init => UpInv
<1> SUFFICES ASSUME Init PROVE UpInv
  OBVIOUS
<1>1. \A r : ~Stands(r, 1)
  BY DEF Stands
<1> QED
  BY <1>1 DEF Init, UpInv

(* Every operation keeps the relation; nothing but main disturbs it.       *)
LEMMA NextUp == TypeOK /\ UpInv /\ [Next]_vars => UpInv'
<1> SUFFICES ASSUME TypeOK, UpInv, [Next]_vars PROVE UpInv'
  OBVIOUS
<1> USE ProgramLength
<1>1. CASE Succeed
  <2>1. /\ at \in 1 .. 31 /\ Program[at][1] = "up" /\ at' = at + 1
        /\ up' = up \cup {Program[at][2]}
    BY <1>1 DEF Succeed, Op, Arg, TypeOK
  <2>2. Program[at][2] \in Resources
    BY <2>1, Kinds, UpsAreResources
  <2>3. \A r : Stands(r, at + 1) <=> Stands(r, at) \/ r = Program[at][2]
    BY <2>1, StandsAfterUp
  <2> QED
    BY <2>1, <2>2, <2>3 DEF UpInv
<1>2. CASE TearDown
  <2>1. /\ at \in 1 .. 31 /\ Program[at][1] = "down" /\ at' = at + 1
        /\ up' = up \ Removed(Program[at][2])
    BY <1>2 DEF TearDown, Op, Arg, TypeOK
  <2>2. \A r : Stands(r, at + 1) <=> Stands(r, at) /\ r \notin Removed(Program[at][2])
    BY <2>1, StandsAfterDown
  <2> QED
    BY <2>1, <2>2 DEF UpInv
<1>3. CASE Create \/ ClearFlag \/ Join \/ PressKey
  <2>1. /\ at \in 1 .. 31 /\ Program[at][1] \notin {"up", "down"} /\ at' = at + 1
        /\ up' = up
    BY <1>3 DEF Create, ClearFlag, Join, PressKey, Op, TypeOK
  <2>2. \A r : Stands(r, at + 1) <=> Stands(r, at)
    BY <2>1, StandsOtherwise
  <2> QED
    BY <2>1, <2>2 DEF UpInv
<1>4. ASSUME at' = at, up' = up PROVE UpInv'
  BY <1>4 DEF UpInv
<1>5. CASE Fail \/ Return \/ Interrupt
  BY <1>4, <1>5 DEF Fail, Return, Interrupt
<1>6. ASSUME NEW t \in Threads, Worker(t) \/ Get(t) \/ GetNull(t) PROVE UpInv'
  BY <1>4, <1>6 DEF Worker, TestFlag, Release, Infer, Send, Get, GetNull
<1>7. CASE Library \/ Delivery
  BY <1>4, <1>7 DEF Library, Camera, Encode, Delivery, Deliver, Record
<1>8. CASE UNCHANGED vars
  BY <1>4, <1>8 DEF vars
<1> QED
  BY <1>1, <1>2, <1>3, <1>5, <1>6, <1>7, <1>8 DEF Next, Main

-----------------------------------------------------------------------------
(* Where main is while a thread lives.                                     *)

(* A thread runs only after main created it, and main is past its join     *)
(* only once it is done.                                                   *)
CreatedAt == [t \in Threads |-> IF t = "rknn" THEN 16 ELSE 17]
JoinedAt == [t \in Threads |-> IF t = "rknn" THEN 22 ELSE 21]

ThreadInv ==
    \A t \in Threads :
        /\ thread[t] # "off" => t \in created /\ at > CreatedAt[t]
        /\ at > JoinedAt[t] /\ t \in created => thread[t] = "done"
        /\ t \in created => at > CreatedAt[t]

(* No thread exists at first.                                              *)
LEMMA InitThread == Init => ThreadInv
  BY DEF Init, ThreadInv, CreatedAt, JoinedAt, Threads

(* Main's creation and joins, and the threads' own steps, keep it.         *)
LEMMA NextThread == TypeOK /\ ThreadInv /\ [Next]_vars => ThreadInv'
<1> SUFFICES ASSUME TypeOK, ThreadInv, [Next]_vars PROVE ThreadInv'
  OBVIOUS
<1> USE ProgramLength
<1>1. CASE Succeed \/ TearDown \/ ClearFlag \/ PressKey
  <2>1. at \in 1 .. 31 /\ at \notin {21, 22} /\ at' = at + 1
    BY <1>1, Kinds DEF Succeed, TearDown, ClearFlag, PressKey, Op, TypeOK
  <2>2. thread' = thread /\ created' = created
    BY <1>1 DEF Succeed, TearDown, ClearFlag, PressKey
  <2> QED
    BY <2>1, <2>2 DEF ThreadInv, CreatedAt, JoinedAt, Threads
<1>2. CASE Create
  <2>1. at \in 16 .. 17 /\ at' = at + 1
    BY <1>2, Kinds DEF Create, Op, TypeOK
  <2>2. Arg \in Threads /\ CreatedAt[Arg] = at
    BY <2>1, SetupTable DEF Arg, Threads, CreatedAt
  <2>3. CASE thread' = [thread EXCEPT ![Arg] = "test"] /\ created' = created \cup {Arg}
    BY <2>1, <2>2, <2>3 DEF ThreadInv, CreatedAt, JoinedAt, TypeOK, Threads
  <2>4. CASE thread' = thread /\ created' = created
    BY <2>1, <2>4 DEF ThreadInv, CreatedAt, JoinedAt, Threads
  <2> QED
    BY <1>2, <2>3, <2>4 DEF Create
<1>3. CASE Join
  <2>1. at \in 21 .. 22 /\ at' = at + 1
    BY <1>3, Kinds DEF Join, Op, TypeOK
  <2>2. Arg \in Threads /\ JoinedAt[Arg] = at
    BY <2>1, DestroyTable DEF Arg, Threads, JoinedAt
  <2>3. thread' = thread /\ created' = created /\ (Arg \in created => thread[Arg] = "done")
    BY <1>3 DEF Join
  <2> QED
    BY <2>1, <2>2, <2>3 DEF ThreadInv, CreatedAt, JoinedAt, Threads
<1>4. ASSUME at' = at, thread' = thread, created' = created PROVE ThreadInv'
  BY <1>4 DEF ThreadInv
<1>5. CASE Fail \/ Return \/ Interrupt
  BY <1>4, <1>5 DEF Fail, Return, Interrupt
<1>6. ASSUME NEW t \in Threads, NEW from \in {"test", "get", "work", "release"}, NEW to,
             Step(t, from, to), at' = at, created' = created, to # "off"
      PROVE  ThreadInv'
  BY <1>6 DEF Step, ThreadInv, CreatedAt, JoinedAt, TypeOK, Threads
<1>7. ASSUME NEW t \in Threads, Worker(t) \/ Get(t) \/ GetNull(t) PROVE ThreadInv'
  <2>1. CASE TestFlag(t)
    <3>1. (IF flag THEN "get" ELSE "done") # "off"
      OBVIOUS
    <3> QED
      BY <1>6, <2>1, <3>1 DEF TestFlag
  <2>2. CASE Release(t)
    BY <1>6, <2>2 DEF Release
  <2>3. CASE Infer
    BY <1>6, <2>3 DEF Infer, Threads
  <2>4. CASE Send
    BY <1>6, <2>4 DEF Send, Threads
  <2>5. CASE Get(t)
    BY <1>6, <2>5 DEF Get
  <2>6. CASE GetNull(t)
    BY <1>6, <2>6 DEF GetNull, AfterNull
  <2> QED
    BY <1>7, <2>1, <2>2, <2>3, <2>4, <2>5, <2>6 DEF Worker
<1>8. CASE Library \/ Delivery
  BY <1>4, <1>8 DEF Library, Camera, Encode, Delivery, Deliver, Record
<1>9. CASE UNCHANGED vars
  BY <1>4, <1>9 DEF vars
<1> QED
  BY <1>1, <1>2, <1>3, <1>5, <1>7, <1>8, <1>9 DEF Next, Main

-----------------------------------------------------------------------------
(* Who owns the buffers.                                                   *)

Mine(t) == {b \in Buffers : t \in owners[ChannelOf[t]][b]}

OwnedInv ==
    \A t \in Threads :
        IF thread[t] \in {"work", "release"} THEN \E b \in Buffers : Mine(t) = {b}
                                             ELSE Mine(t) = {}

(* No buffer is owned at first.                                            *)
LEMMA InitOwned == Init => OwnedInv
  BY DEF Init, OwnedInv, Mine, ChannelOf, Channels, Threads

(* A step that changes neither the threads' ownership nor whether they     *)
(* hold a buffer keeps the invariant.                                      *)
LEMMA OwnedUnchanged ==
    ASSUME OwnedInv,
           \A t \in Threads : /\ Mine(t)' = Mine(t)
                              /\ thread'[t] \in {"work", "release"}
                                    <=> thread[t] \in {"work", "release"}
    PROVE  OwnedInv'
  BY DEF OwnedInv

(* A step of one thread changes nothing for the other one.                 *)
LEMMA OwnedByOne ==
    ASSUME OwnedInv, NEW t \in Threads,
           \A u \in Threads \ {t} : Mine(u)' = Mine(u) /\ thread'[u] = thread[u],
           IF thread'[t] \in {"work", "release"} THEN \E b \in Buffers : Mine(t)' = {b}
                                                 ELSE Mine(t)' = {}
    PROVE  OwnedInv'
  BY DEF OwnedInv

(* Get takes one buffer, Release gives it back, nothing else touches it.   *)
LEMMA NextOwned == TypeOK /\ OwnedInv /\ ThreadInv /\ [Next]_vars => OwnedInv'
<1> SUFFICES ASSUME TypeOK, OwnedInv, ThreadInv, [Next]_vars PROVE OwnedInv'
  OBVIOUS
<1> USE ProgramLength
<1>a. /\ \A t \in Threads : ChannelOf[t] \in Channels
      /\ \A t, u \in Threads : t # u => ChannelOf[t] # ChannelOf[u]
  BY DEF ChannelOf, Channels, Threads
<1>b. /\ owners \in [Channels -> [Buffers -> SUBSET ({"queue", "venc"} \cup Threads)]]
      /\ thread \in [Threads -> {"off", "test", "get", "work", "release", "done"}]
  BY DEF TypeOK
<1>1. ASSUME owners' = owners, thread' = thread PROVE OwnedInv'
  BY <1>1, OwnedUnchanged DEF Mine
<1>2. CASE Succeed \/ Fail \/ ClearFlag \/ Join \/ TearDown \/ Return \/ PressKey \/ Interrupt
  BY <1>1, <1>2 DEF Succeed, Fail, ClearFlag, Join, TearDown, Return, PressKey, Interrupt
<1>3. CASE Create
  <2>1. CASE thread' = [thread EXCEPT ![Arg] = "test"]
    <3>1. at \in 16 .. 17
      BY <1>3, Kinds DEF Create, Op, TypeOK
    <3>2. Arg \in Threads /\ at <= CreatedAt[Arg]
      BY <3>1, SetupTable DEF Arg, Threads, CreatedAt
    <3>3. thread[Arg] = "off"
      BY <3>1, <3>2 DEF ThreadInv, CreatedAt, Threads
    <3>4. \A t \in Threads : Mine(t)' = Mine(t)
      BY <1>3 DEF Create, Mine
    <3>5. \A t \in Threads : thread'[t] = IF t = Arg THEN "test" ELSE thread[t]
      BY <2>1, <1>b, <3>2
    <3> QED
      BY <3>3, <3>4, <3>5, OwnedUnchanged
  <2>2. CASE thread' = thread
    BY <1>1, <1>3, <2>2 DEF Create
  <2> QED
    BY <1>3, <2>1, <2>2 DEF Create
<1>4. ASSUME NEW t \in Threads, TestFlag(t) \/ GetNull(t) PROVE OwnedInv'
  <2>1. \A u \in Threads : Mine(u)' = Mine(u)
    BY <1>4 DEF TestFlag, GetNull, Mine
  <2>2. \A u \in Threads : /\ u # t => thread'[u] = thread[u]
                           /\ thread'[t] \notin {"work", "release"}
                           /\ thread[t] \notin {"work", "release"}
    BY <1>4, <1>b DEF TestFlag, GetNull, AfterNull, Step
  <2> QED
    BY <2>1, <2>2, OwnedUnchanged
<1>5. ASSUME NEW t \in Threads, Release(t) PROVE OwnedInv'
  <2>1. \A u \in Threads \ {t} : Mine(u)' = Mine(u)
    BY <1>5, <1>a, <1>b DEF Release, Mine
  <2>2. Mine(t)' = {}
    BY <1>5, <1>a, <1>b DEF Release, Released, Mine
  <2>3. thread'[t] = "test" /\ \A u \in Threads \ {t} : thread'[u] = thread[u]
    BY <1>5, <1>b DEF Release, Step
  <2> QED
    BY <2>1, <2>2, <2>3, OwnedByOne
<1>6. CASE Infer
  <2>1. \A u \in Threads : Mine(u)' = Mine(u)
    BY <1>6 DEF Infer, Mine
  <2>2. \A u \in Threads : thread'[u] \in {"work", "release"} <=> thread[u] \in {"work", "release"}
    BY <1>6, <1>b DEF Infer, Step, Threads
  <2> QED
    BY <2>1, <2>2, OwnedUnchanged
<1>7. CASE Send
  <2>1. \A u \in Threads : u # "venc"
    BY DEF Threads
  <2>2. \A u \in Threads : Mine(u)' = Mine(u)
    <3> TAKE u \in Threads
    <3>1. CASE owners' = owners
      BY <3>1 DEF Mine
    <3>2. ASSUME NEW b \in Buffers, owners' = [owners EXCEPT ![0][b] = @ \cup {"venc"}]
          PROVE  Mine(u)' = Mine(u)
      BY <1>a, <1>b, <2>1, <3>2 DEF Mine, Channels
    <3> QED
      BY <1>7, <3>1, <3>2 DEF Send
  <2>3. \A u \in Threads : thread'[u] \in {"work", "release"} <=> thread[u] \in {"work", "release"}
    BY <1>7, <1>b DEF Send, Step, Threads
  <2> QED
    BY <2>2, <2>3, OwnedUnchanged
<1>8. ASSUME NEW t \in Threads, Get(t) PROVE OwnedInv'
  <2>1. PICK b \in Buffers : /\ owners[ChannelOf[t]][b] = {"queue"}
                             /\ owners' = [owners EXCEPT ![ChannelOf[t]][b] = {t}]
    BY <1>8 DEF Get
  <2>2. thread[t] = "get" /\ thread'[t] = "work"
        /\ \A u \in Threads \ {t} : thread'[u] = thread[u]
    BY <1>8, <1>b DEF Get, Step
  <2>3. \A u \in Threads \ {t} : Mine(u)' = Mine(u)
    BY <1>a, <1>b, <2>1 DEF Mine
  <2>4. Mine(t) = {}
    BY <2>2 DEF OwnedInv
  <2>5. Mine(t)' = {b}
    BY <1>a, <1>b, <2>1, <2>4 DEF Mine
  <2> QED
    BY <2>2, <2>3, <2>5, OwnedByOne
<1>9. ASSUME NEW c \in Channels, Camera(c) PROVE OwnedInv'
  <2>1. PICK b \in Buffers : /\ owners[c][b] = {}
                             /\ owners' = [owners EXCEPT ![c][b] = {"queue"}]
    BY <1>9 DEF Camera
  <2>2. \A u \in Threads : u # "queue"
    BY DEF Threads
  <2>3. \A u \in Threads : Mine(u)' = Mine(u)
    BY <1>a, <1>b, <2>1, <2>2 DEF Mine
  <2> QED
    BY <1>9, <2>3, OwnedUnchanged DEF Camera
<1>10. CASE Encode
  <2>1. PICK b \in Buffers : owners' = [owners EXCEPT ![0][b] = @ \ {"venc"}]
    BY <1>10 DEF Encode
  <2>2. \A u \in Threads : u # "venc"
    BY DEF Threads
  <2>3. \A u \in Threads : Mine(u)' = Mine(u)
    BY <1>a, <1>b, <2>1, <2>2 DEF Mine, Channels
  <2> QED
    BY <1>10, <2>3, OwnedUnchanged DEF Encode
<1>11. CASE Delivery
  BY <1>1, <1>11 DEF Delivery, Deliver, Record
<1>12. CASE UNCHANGED vars
  BY <1>1, <1>12 DEF vars
<1> QED
  BY <1>2, <1>3, <1>4, <1>5, <1>6, <1>7, <1>8, <1>9, <1>10, <1>11, <1>12
     DEF Next, Main, Worker, Library

-----------------------------------------------------------------------------
(* What still reaches the RTSP server.                                     *)

Quiet == packets = 0 /\ callback = "idle" /\ ~InUse(0)

RtspInv ==
    /\ at <= 23 => drained /\ ~rtspMisused
    /\ at > 23 /\ drained => Quiet
    /\ rtspMisused => ~drained

(* At first the server has not been deleted.                               *)
LEMMA InitRtsp == Init => RtspInv
  BY DEF Init, RtspInv

(* The observer is joined before the server is deleted, so a pipeline that *)
(* is empty then stays empty.                                              *)
LEMMA NextRtsp == TypeInv /\ UpInv /\ ThreadInv /\ RtspInv /\ [Next]_vars => RtspInv'
<1> SUFFICES ASSUME TypeInv, UpInv, ThreadInv, RtspInv, [Next]_vars PROVE RtspInv'
  OBVIOUS
<1> USE ProgramLength
<1>a. at \in 1 .. 32
  BY DEF TypeInv, TypeOK
<1>1. ASSUME at' = at, drained' = drained, rtspMisused' = rtspMisused, Quiet => Quiet'
      PROVE  RtspInv'
  BY <1>1 DEF RtspInv
<1>b. ASSUME at <= 23, at' = at, drained' = drained, rtspMisused' <=> rtspMisused
      PROVE  RtspInv'
  <2>1. ~(at > 23)
    BY <1>a, <1>b
  <2> QED
    BY <1>b, <2>1 DEF RtspInv
<1>2. ASSUME owners' = owners, packets' = packets, callback' = callback PROVE Quiet' <=> Quiet
  BY <1>2 DEF Quiet, InUse
<1>3. CASE Succeed \/ Create \/ ClearFlag \/ Join \/ PressKey
  <2>1. at \in 1 .. 22 /\ at' = at + 1
    BY <1>a, <1>3, Kinds DEF Succeed, Create, ClearFlag, Join, PressKey, Op
  <2>2. drained' = drained /\ rtspMisused' = rtspMisused
    BY <1>3 DEF Succeed, Create, ClearFlag, Join, PressKey
  <2> QED
    BY <2>1, <2>2 DEF RtspInv
<1>4. CASE TearDown
  <2>1. at \in 23 .. 31 /\ at' = at + 1 /\ rtspMisused' = rtspMisused
    BY <1>a, <1>4, Kinds DEF TearDown, Op
  <2>2. Quiet' <=> Quiet
    BY <1>2, <1>4 DEF TearDown
  <2>3. CASE at = 23
    <3>1. drained' <=> Quiet
      <4>1. Arg = <<"rtsp", 0>>
        BY <2>3, DestroyTable DEF Arg
      <4> QED
        BY <1>4, <4>1 DEF TearDown, Quiet
    <3> QED
      BY <2>1, <2>2, <2>3, <3>1 DEF RtspInv
  <2>4. CASE at # 23
    <3>1. Arg # <<"rtsp", 0>>
      <4>1. Program[at][2] = Destroy[at - 20][2] /\ at - 20 \in 4 .. 11
        BY <2>1, <2>4, DestroyLast
      <4>2. \A k \in 4 .. 11 : Destroy[k][2] # <<"rtsp", 0>>
        BY DEF Destroy, Bind, Vi, Rga
      <4> QED
        BY <4>1, <4>2 DEF Arg
    <3>2. drained' = drained
      BY <1>4, <3>1 DEF TearDown
    <3> QED
      BY <2>1, <2>2, <2>4, <3>2 DEF RtspInv
  <2> QED
    BY <2>3, <2>4
<1>5. CASE Fail \/ Return \/ Interrupt
  BY <1>1, <1>2, <1>5 DEF Fail, Return, Interrupt
<1>6. ASSUME NEW t \in Threads, TestFlag(t) \/ GetNull(t) \/ Infer PROVE RtspInv'
  BY <1>1, <1>2, <1>6 DEF TestFlag, GetNull, Infer
<1>7. CASE Send
  <2>1. at <= 23
    BY <1>a, <1>7 DEF Send, Step, ThreadInv, JoinedAt, Threads
  <2> QED
    BY <1>b, <1>7, <2>1 DEF Send
<1>8. ASSUME NEW t \in Threads, Release(t) \/ Get(t) PROVE RtspInv'
  <2>1. InUse(0)' => InUse(0)
    <3>1. owners \in [Channels -> [Buffers -> SUBSET ({"queue", "venc"} \cup Threads)]]
      BY DEF TypeInv, TypeOK
    <3>2. ChannelOf[t] \in Channels /\ 0 \in Channels /\ t # "venc"
      BY DEF ChannelOf, Channels, Threads
    <3>3. CASE Release(t)
      BY <3>1, <3>2, <3>3 DEF Release, Released, InUse
    <3>4. CASE Get(t)
      BY <3>1, <3>2, <3>4 DEF Get, InUse
    <3> QED
      BY <1>8, <3>3, <3>4
  <2> QED
    BY <1>1, <1>8, <2>1 DEF Release, Get, Quiet
<1>9. ASSUME NEW c \in Channels, Camera(c) PROVE RtspInv'
  <2>1. InUse(0)' => InUse(0)
    <3>1. owners \in [Channels -> [Buffers -> SUBSET ({"queue", "venc"} \cup Threads)]]
      BY DEF TypeInv, TypeOK
    <3> QED
      BY <1>9, <3>1 DEF Camera, InUse, Channels
  <2> QED
    BY <1>1, <1>9, <2>1 DEF Camera, Quiet
<1>10. CASE Encode
  <2>1. ~Quiet
    BY <1>10 DEF Encode, Quiet, InUse
  <2> QED
    BY <1>1, <1>10, <2>1 DEF Encode
<1>11. CASE Deliver
  <2>1. ~Quiet
    BY <1>11 DEF Deliver, Quiet, TypeInv, TypeOK
  <2>2. CASE at <= 23
    <3>1. Stands(<<"callback", 0>>, at)
      BY <1>11 DEF Deliver, UpInv
    <3>2. at \in 16 .. 23
      BY <1>a, <2>2, <3>1, CallbackLast
    <3>3. <<"rtsp", 0>> \in Resources /\ Stands(<<"rtsp", 0>>, at)
      <4>1. Program[4][2] = <<"rtsp", 0>>
        BY SetupTable
      <4>2. Program[4][2] \in Resources
        BY UpsAreResources
      <4>3. Stands(Program[4][2], at)
        BY <3>2, AllStandUntilJoined
      <4> QED
        BY <4>1, <4>2, <4>3
    <3>4. <<"rtsp", 0>> \in up
      BY <3>3 DEF UpInv
    <3>5. at' = at /\ drained' = drained /\ (rtspMisused' <=> rtspMisused)
      BY <1>11, <3>4 DEF Deliver
    <3> QED
      BY <1>b, <2>2, <3>5
  <2>3. CASE at > 23
    BY <1>11, <2>1, <2>3 DEF Deliver, RtspInv
  <2> QED
    BY <1>a, <2>2, <2>3
<1>12. CASE Record
  <2>1. ~Quiet
    BY <1>12 DEF Record, Quiet
  <2> QED
    BY <1>1, <1>12, <2>1 DEF Record
<1>13. CASE UNCHANGED vars
  BY <1>1, <1>2, <1>13 DEF vars
<1> QED
  BY <1>3, <1>4, <1>5, <1>6, <1>7, <1>8, <1>9, <1>10, <1>11, <1>12, <1>13
     DEF Next, Main, Worker, Library, Delivery

-----------------------------------------------------------------------------
(* The theorems.                                                           *)

IInv == TypeInv /\ UpInv /\ ThreadInv /\ OwnedInv /\ RtspInv

(* All of it together is inductive.                                        *)
LEMMA Inductive == Spec => []IInv
<1>1. Init => IInv
  BY InitType, InitUp, InitThread, InitOwned, InitRtsp DEF IInv
<1>2. IInv /\ [Next]_vars => IInv'
  BY NextType, NextUp, NextThread, NextOwned, NextRtsp DEF IInv, TypeInv
<1> QED
  BY <1>1, <1>2, PTL DEF Spec

(* Whatever set-up call fails, a worker thread of rknn_process.cc or       *)
(* monitor.cc runs only while its camera channel, its RGA pool, their      *)
(* binding, its stream and the model or the encoder are up.                *)
THEOREM ThreadsHaveTheirPipeline == Spec => []PipelineUp
<1>1. IInv => PipelineUp
  <2> SUFFICES ASSUME IInv, NEW t \in Threads, Alive(t), NEW r \in Needs(t)
               PROVE  r \in up
    BY DEF PipelineUp
  <2>1. at \in 1 .. 32 /\ thread[t] \in {"test", "get", "work", "release"}
    BY ProgramLength DEF IInv, TypeInv, TypeOK, Alive
  <2>2. at > CreatedAt[t] /\ ~(at > JoinedAt[t])
    BY <2>1 DEF IInv, ThreadInv
  <2>3. at \in 16 .. 23
    BY <2>1, <2>2 DEF CreatedAt, JoinedAt, Threads
  <2> QED
    BY <2>3, NeedsStand DEF IInv, UpInv
<1> QED
  BY <1>1, Inductive, PTL

(* main and destroy_all never leave an RGA channel bound to a VI channel   *)
(* of which one end does not exist.                                        *)
THEOREM BindingsHaveEnds == Spec => []BoundEndsExist
<1>1. IInv => BoundEndsExist
  <2> SUFFICES ASSUME IInv, NEW c \in Channels, Bind(c) \in up
               PROVE  Vi(c) \in up /\ Rga(c) \in up
    BY DEF BoundEndsExist
  <2>1. at \in 1 .. 32 /\ Stands(Bind(c), at)
    BY ProgramLength DEF IInv, TypeInv, TypeOK, UpInv
  <2>2. Stands(Vi(c), at) /\ Stands(Rga(c), at)
    BY <2>1, BindingStands
  <2>3. Vi(c) \in Resources /\ Rga(c) \in Resources
    BY DEF Resources, Vi, Rga, Channels
  <2> QED
    BY <2>2, <2>3 DEF IInv, UpInv
<1> QED
  BY <1>1, Inductive, PTL

(* For pools of any size, each worker holds exactly one buffer between its *)
(* get and its release, and none at any other time.                        *)
THEOREM OneBufferPerThread == Spec => []BufferOwned
<1>1. IInv => BufferOwned
  <2> SUFFICES ASSUME IInv, NEW t \in Threads
               PROVE  IF thread[t] \in {"work", "release"} THEN Cardinality(Mine(t)) = 1
                                                           ELSE Mine(t) = {}
    BY DEF BufferOwned, Mine
  <2>1. CASE thread[t] \in {"work", "release"}
    <3>1. PICK b \in Buffers : Mine(t) = {b}
      BY <2>1 DEF IInv, OwnedInv
    <3> QED
      BY <2>1, <3>1, FS_Singleton
  <2>2. CASE thread[t] \notin {"work", "release"}
    BY <2>2 DEF IInv, OwnedInv
  <2> QED
    BY <2>1, <2>2
<1> QED
  BY <1>1, Inductive, PTL

(* monitor_venc_packet_cb uses the RTSP server that destroy_all deleted    *)
(* only for packets that were under way at the deletion.                   *)
THEOREM RtspMisuseIsLate == Spec => []OnlyLatePacketsMisuseRtsp
<1>1. IInv => OnlyLatePacketsMisuseRtsp
  BY DEF IInv, RtspInv, OnlyLatePacketsMisuseRtsp
<1> QED
  BY <1>1, Inductive, PTL

=============================================================================
