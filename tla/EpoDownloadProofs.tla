------------------------- MODULE EpoDownloadProofs -------------------------
(***************************************************************************)
(* Proofs about EpoDownload: its types, in every environment, and what     *)
(* EPOHAL.DAT holds when no session disturbs the thread.                   *)
(***************************************************************************)
EXTENDS EpoDownload, SequenceTheorems, TLAPS

\* The types, in parts, with what keeps the counters in range.
ThreadOK ==
    /\ tpc \in {"loop", "get", "append", "check", "count", "finish",
                "main", "retry", "retried", "wifi"}
    /\ caller \in {"main", "retried"}
    /\ file_retrying \in Piece \cup {FirstRestore}
    /\ retry_time \in 0..RetryLimit /\ file_count_temp \in Piece
CountOK == count \in 0..10 /\ (tpc # "finish" => count < 10)
FlagsOK == updated \in BOOLEAN /\ failed \in BOOLEAN /\ retry \in BOOLEAN
PieceOK == name \in Piece /\ piece \in [Piece -> Short..MaxDay]
FilesOK == hal \in Seq(Data) /\ dat \in Seq(Data)
StateOK ==
    /\ timer \in BOOLEAN
    /\ fw \in {"stopped", "download", "renew", "update", "starting", "on"}
    /\ conn \in BOOLEAN /\ net \in Network
QueueOK == upd \in 0..UpdCap /\ done \in 0..UpdCap /\ upd + done <= UpdCap
TimeOK  == day \in 1..MaxDay /\ srv \in 1..day
TypeInv ==
    /\ ThreadOK /\ CountOK /\ FlagsOK /\ PieceOK /\ FilesOK /\ StateOK
    /\ QueueOK /\ TimeOK /\ ev \in Envs

\* The number of pieces is at most that of the server.
LEMMA CountTempRange == CountTemp \in 0..10 /\ LastPiece \in Piece
<1>1. DwDays \in 0..30
  BY EpoAssumption
<1>2. CountTemp \in 0..10
  BY <1>1 DEF CountTemp
<1> QED
  BY <1>2 DEF LastPiece, Piece

\* A merged piece is data.
LEMMA AppendData ==
    ASSUME NEW f \in Seq(Data), NEW n \in Piece, NEW g \in Short..MaxDay
    PROVE  Append(f, [p |-> n, g |-> g]) \in Seq(Data)
<1>1. [p |-> n, g |-> g] \in Data
  BY DEF Data
<1> QED
  BY <1>1

\* The types hold initially.
LEMMA TypeInit == Init => TypeInv
<1> SUFFICES ASSUME Init PROVE TypeInv
  OBVIOUS
<1>0. /\ MaxDay \in Nat \ {0} /\ UpdCap \in Nat /\ RetryLimit \in Nat \ {0}
  BY EpoAssumption
<1>1. ThreadOK /\ CountOK
  BY <1>0 DEF Init, ThreadOK, CountOK, Piece
<1>6. FlagsOK /\ StateOK
  BY Zenon DEF Init, FlagsOK, StateOK
<1>2. QueueOK /\ ev \in Envs
  BY <1>0 DEF Init, QueueOK
<1>3. TimeOK
  BY <1>0 DEF Init, TimeOK
<1>4. PieceOK
  <2>1. 0 \in Short..MaxDay /\ 0 \in Piece
    BY <1>0 DEF Short, Piece
  <2> QED
    BY <2>1 DEF Init, PieceOK
<1>5. FilesOK
  <2>1. 1 \in Short..MaxDay /\ 0 \in Piece
    BY <1>0 DEF Short, Piece
  <2>2. <<[p |-> 0, g |-> 1]>> \in Seq(Data)
    BY <2>1 DEF Data
  <2>3. <<>> \in Seq(Data)
    OBVIOUS
  <2>4. dat = <<>> \/ dat = <<[p |-> 0, g |-> 1]>>
    BY Zenon DEF Init
  <2>5. hal = <<>>
    BY Zenon DEF Init
  <2> QED
    BY <2>2, <2>3, <2>4, <2>5, Zenon DEF FilesOK
<1> QED
  BY <1>1, <1>2, <1>3, <1>4, <1>5, <1>6 DEF TypeInv

\* Every step keeps them.
LEMMA TypeStep == TypeInv /\ [Next]_vars => TypeInv'
<1> SUFFICES ASSUME TypeInv, [Next]_vars PROVE TypeInv'
  OBVIOUS
<1>0. /\ MaxDay \in Nat \ {0} /\ UpdCap \in Nat /\ RetryLimit \in Nat \ {0}
      /\ 0 \in Piece /\ 0 \in Short..MaxDay /\ <<>> \in Seq(Data)
      /\ (\A n \in 0..9 : n \in Piece)
  BY EpoAssumption DEF Piece, Short
<1>a. /\ ThreadOK /\ CountOK /\ FlagsOK /\ PieceOK /\ FilesOK /\ StateOK
      /\ QueueOK /\ TimeOK /\ ev \in Envs
  BY DEF TypeInv
<1>1. CASE LoopHead
  <2>1. ThreadOK' /\ CountOK'
    BY <1>1, <1>a DEF LoopHead, ThreadOK, CountOK
  <2>2. FlagsOK'
    BY <1>1, <1>a DEF LoopHead, FlagsOK
  <2>3. PieceOK'
    BY <1>1, <1>a, <1>0 DEF LoopHead, PieceOK, CountOK, Piece
  <2>4. (FilesOK /\ StateOK /\ QueueOK /\ TimeOK /\ ev \in Envs)'
    BY <1>1, <1>a DEF LoopHead, env, FilesOK, StateOK, QueueOK, TimeOK
  <2> QED
    BY <2>1, <2>2, <2>3, <2>4 DEF TypeInv
<1>2. CASE GetPiece
  <2>1. ThreadOK' /\ CountOK' /\ FlagsOK'
    BY <1>2, <1>a DEF GetPiece, flags, ThreadOK, CountOK, FlagsOK
  <2>2. srv \in Short..MaxDay /\ Short \in Short..MaxDay
    BY <1>a, <1>0 DEF TimeOK, Short
  <2>3. PieceOK'
    BY <1>2, <1>a, <2>2 DEF GetPiece, PieceOK
  <2>4. (FilesOK /\ StateOK /\ QueueOK /\ TimeOK /\ ev \in Envs)'
    BY <1>2, <1>a DEF GetPiece, env, FilesOK, StateOK, QueueOK, TimeOK
  <2> QED
    BY <2>1, <2>3, <2>4 DEF TypeInv
<1>3. CASE GetFails
  <2>1. ThreadOK' /\ CountOK' /\ FlagsOK'
    BY <1>3, <1>a DEF GetFails, ThreadOK, CountOK, FlagsOK
  <2>2. PieceOK'
    BY <1>3, <1>a, <1>0 DEF GetFails, PieceOK
  <2>3. (FilesOK /\ StateOK /\ QueueOK /\ TimeOK /\ ev \in Envs)'
    BY <1>3, <1>a DEF GetFails, env, FilesOK, StateOK, QueueOK, TimeOK
  <2> QED
    BY <2>1, <2>2, <2>3 DEF TypeInv
<1>4. CASE AppendPiece
  <2>1. ThreadOK' /\ CountOK' /\ FlagsOK' /\ PieceOK'
    BY <1>4, <1>a DEF AppendPiece, flags, ThreadOK, CountOK, FlagsOK, PieceOK
  <2>2. piece[name] \in Short..MaxDay /\ name \in Piece
    BY <1>a DEF PieceOK
  <2>3. FilesOK'
    <3>1. (IF count = 0 THEN <<>> ELSE hal) \in Seq(Data)
      BY <1>a, <1>0 DEF FilesOK
    <3>2. hal' \in Seq(Data)
      <4>1. Short \in Short..MaxDay
        BY EpoAssumption DEF Short
      <4> QED
        BY <1>4, <2>2, <3>1, <4>1, AppendData DEF AppendPiece
    <3> QED
      BY <1>4, <1>a, <3>2 DEF AppendPiece, FilesOK
  <2>4. (StateOK /\ QueueOK /\ TimeOK /\ ev \in Envs)'
    BY <1>4, <1>a DEF AppendPiece, env, StateOK, QueueOK, TimeOK
  <2> QED
    BY <2>1, <2>3, <2>4 DEF TypeInv
<1>5. CASE PieceShort
  <2>1. ThreadOK' /\ CountOK' /\ FlagsOK'
    BY <1>5, <1>a DEF PieceShort, ThreadOK, CountOK, FlagsOK
  <2>2. PieceOK'
    BY <1>5, <1>a, <1>0 DEF PieceShort, PieceOK, CountOK, Piece
  <2>3. (FilesOK /\ StateOK /\ QueueOK /\ TimeOK /\ ev \in Envs)'
    BY <1>5, <1>a DEF PieceShort, env, FilesOK, StateOK, QueueOK, TimeOK
  <2> QED
    BY <2>1, <2>2, <2>3 DEF TypeInv
<1>6. CASE DataChanged
  <2>1. ThreadOK' /\ CountOK'
    BY <1>6, <1>a DEF DataChanged, ThreadOK, CountOK
  <2>2. FlagsOK'
    BY <1>6, <1>a, Zenon DEF DataChanged, FlagsOK
  <2>3. PieceOK'
    BY <1>6, <1>a, <1>0 DEF DataChanged, PieceOK
  <2>4. (FilesOK /\ StateOK /\ QueueOK /\ TimeOK /\ ev \in Envs)'
    BY <1>6, <1>a, <1>0 DEF DataChanged, env, FilesOK, StateOK, QueueOK, TimeOK
  <2> QED
    BY <2>1, <2>2, <2>3, <2>4 DEF TypeInv
<1>7. CASE DataSame
  <2>1. ThreadOK' /\ CountOK' /\ FlagsOK'
    BY <1>7, <1>a DEF DataSame, flags, ThreadOK, CountOK, FlagsOK
  <2>2. PieceOK'
    BY <1>7, <1>a, <1>0 DEF DataSame, flags, PieceOK, CountOK, Piece
  <2>3. (FilesOK /\ StateOK /\ QueueOK /\ TimeOK /\ ev \in Envs)'
    BY <1>7, <1>a DEF DataSame, env, FilesOK, StateOK, QueueOK, TimeOK
  <2> QED
    BY <2>1, <2>2, <2>3 DEF TypeInv
<1>8. CASE CountPiece
  <2>1. ThreadOK' /\ CountOK' /\ FlagsOK'
    BY <1>8, <1>a, CountTempRange DEF CountPiece, ThreadOK, CountOK, FlagsOK
  <2>2. (PieceOK /\ FilesOK /\ StateOK /\ QueueOK /\ TimeOK /\ ev \in Envs)'
    BY <1>8, <1>a DEF CountPiece, files, env, PieceOK, FilesOK, StateOK,
                      QueueOK, TimeOK
  <2> QED
    BY <2>1, <2>2 DEF TypeInv
<1>9. CASE Finish
  <2>1. ThreadOK' /\ CountOK'
    BY <1>9, <1>a DEF Finish, ThreadOK, CountOK
  <2>5. FlagsOK'
    BY <1>9, <1>a, Zenon DEF Finish, FlagsOK
  <2>2. PieceOK'
    BY <1>9, <1>a, <1>0, CountTempRange DEF Finish, PieceOK
  <2>3. FilesOK' /\ StateOK' /\ TimeOK' /\ (ev \in Envs)'
    BY <1>9, <1>a, <1>0 DEF Finish, FilesOK, StateOK, TimeOK
  <2>4. QueueOK'
    BY <1>9, <1>a, <1>0 DEF Finish, RequestUpdate, QueueOK
  <2> QED
    BY <2>1, <2>2, <2>3, <2>4, <2>5 DEF TypeInv
<1>10. CASE MainReturn
  <2>1. ThreadOK' /\ CountOK'
    BY <1>10, <1>a DEF MainReturn, ThreadOK, CountOK
  <2>2. FlagsOK'
    BY <1>10, <1>a, Zenon DEF MainReturn, FlagsOK
  <2>3. (PieceOK /\ FilesOK /\ StateOK /\ QueueOK /\ TimeOK /\ ev \in Envs)'
    BY <1>10, <1>a DEF MainReturn, files, env, PieceOK, FilesOK, StateOK,
                       QueueOK, TimeOK
  <2> QED
    BY <2>1, <2>2, <2>3 DEF TypeInv
<1>11. CASE SkipRetry
  BY <1>11, <1>a DEF SkipRetry, flags, files, env, TypeInv, ThreadOK, CountOK,
     FlagsOK, PieceOK, FilesOK, StateOK, QueueOK, TimeOK
<1>12. CASE Retry
  <2>1. count \in Piece
    BY <1>12, <1>a, <1>0 DEF Retry, CountOK, Piece
  <2>2. ThreadOK' /\ CountOK'
    BY <1>12, <1>a, <2>1 DEF Retry, ThreadOK, CountOK
  <2>5. FlagsOK'
    BY <1>12, <1>a, Zenon DEF Retry, FlagsOK
  <2>3. PieceOK' /\ FilesOK'
    BY <1>12, <1>a, <1>0, <2>1 DEF Retry, PieceOK, FilesOK
  <2>4. (StateOK /\ QueueOK /\ TimeOK /\ ev \in Envs)'
    BY <1>12, <1>a DEF Retry, env, StateOK, QueueOK, TimeOK
  <2> QED
    BY <2>2, <2>3, <2>4, <2>5 DEF TypeInv
<1>13. CASE Retried
  <2>1. count \in Piece
    BY <1>13, <1>a, <1>0 DEF Retried, CountOK, Piece
  <2>2. ThreadOK'
    BY <1>13, <1>a, <1>0, <2>1 DEF Retried, ThreadOK
  <2>3. CountOK'
    BY <1>13, <1>a DEF Retried, CountOK
  <2>5. FlagsOK' /\ StateOK'
    BY <1>13, <1>a, Zenon DEF Retried, FlagsOK, StateOK
  <2>4. (PieceOK /\ FilesOK /\ QueueOK /\ TimeOK /\ ev \in Envs)'
    BY <1>13, <1>a DEF Retried, files, PieceOK, FilesOK, QueueOK, TimeOK
  <2> QED
    BY <2>2, <2>3, <2>4, <2>5 DEF TypeInv
<1>14. CASE WifiTragger
  <2>1. ThreadOK' /\ CountOK'
    <3>1. count' = 0 \/ count' = count
      BY <1>14, Zenon DEF WifiTragger
    <3>2. /\ tpc' = "loop" /\ tpc = "wifi"
          /\ UNCHANGED <<caller, file_retrying, retry_time, file_count_temp>>
      BY <1>14, Zenon DEF WifiTragger
    <3> QED
      BY <1>a, <3>1, <3>2 DEF ThreadOK, CountOK
  <2>4. FlagsOK'
    BY <1>14, <1>a, Zenon DEF WifiTragger, FlagsOK
  <2>2. PieceOK' /\ FilesOK'
    BY <1>14, <1>a, <1>0 DEF WifiTragger, PieceOK, FilesOK
  <2>3. (StateOK /\ QueueOK /\ TimeOK /\ ev \in Envs)'
    BY <1>14, <1>a DEF WifiTragger, env, StateOK, QueueOK, TimeOK
  <2> QED
    BY <2>1, <2>2, <2>3, <2>4 DEF TypeInv
<1>15. CASE TimerExpires
  <2>1. FlagsOK' /\ StateOK'
    BY <1>15, <1>a, Zenon DEF TimerExpires, FlagsOK, StateOK
  <2>2. (ThreadOK /\ CountOK /\ PieceOK /\ FilesOK /\ QueueOK /\ TimeOK
         /\ ev \in Envs)'
    BY <1>15, <1>a DEF TimerExpires, thread, files, ThreadOK, CountOK, PieceOK,
       FilesOK, QueueOK, TimeOK
  <2> QED
    BY <2>1, <2>2 DEF TypeInv
<1>16. CASE StartCheck
  <2>1. ThreadOK' /\ CountOK'
    <3>1. count' = 0 \/ count' = count
      BY <1>16, Zenon DEF StartCheck
    <3>2. /\ tpc' = tpc
          /\ UNCHANGED <<caller, file_retrying, retry_time, file_count_temp>>
      BY <1>16, Zenon DEF StartCheck, thread
    <3> QED
      BY <1>a, <3>1, <3>2 DEF ThreadOK, CountOK
  <2>4. FlagsOK'
    BY <1>16, <1>a DEF StartCheck, FlagsOK
  <2>2. StateOK'
    BY <1>16, <1>a DEF StartCheck, StateOK
  <2>3. (PieceOK /\ FilesOK /\ QueueOK /\ TimeOK /\ ev \in Envs)'
    BY <1>16, <1>a DEF StartCheck, files, PieceOK, FilesOK, QueueOK, TimeOK
  <2> QED
    BY <2>1, <2>2, <2>3, <2>4 DEF TypeInv
<1>17. CASE StartDownload
  <2>1. ThreadOK' /\ CountOK' /\ FlagsOK'
    BY <1>17, <1>a DEF StartDownload, thread, ThreadOK, CountOK, FlagsOK
  <2>2. (PieceOK /\ FilesOK /\ StateOK /\ QueueOK /\ TimeOK /\ ev \in Envs)'
    BY <1>17, <1>a, <1>0 DEF StartDownload, PieceOK, FilesOK, StateOK,
                             QueueOK, TimeOK
  <2> QED
    BY <2>1, <2>2 DEF TypeInv
<1>18. CASE StartUpdate
  <2>1. ThreadOK' /\ CountOK' /\ FlagsOK' /\ PieceOK' /\ StateOK' /\ TimeOK'
        /\ (ev \in Envs)'
    BY <1>18, <1>a DEF StartUpdate, thread, flags, ThreadOK, CountOK, FlagsOK,
                       PieceOK, StateOK, TimeOK
  <2>2. FilesOK' /\ QueueOK'
    BY <1>18, <1>a, <1>0 DEF StartUpdate, RequestUpdate, FilesOK, QueueOK
  <2> QED
    BY <2>1, <2>2 DEF TypeInv
<1>19. CASE StartStop
  BY <1>19, <1>a DEF StartStop, thread, flags, files, TypeInv, ThreadOK,
     CountOK, FlagsOK, PieceOK, FilesOK, StateOK, QueueOK, TimeOK
<1>20. CASE UpdateDone
  <2>1. ThreadOK' /\ CountOK' /\ FlagsOK' /\ PieceOK' /\ StateOK' /\ TimeOK'
        /\ (ev \in Envs)'
    BY <1>20, <1>a DEF UpdateDone, thread, flags, ThreadOK, CountOK, FlagsOK,
                       PieceOK, StateOK, TimeOK
  <2>2. FilesOK' /\ QueueOK'
    BY <1>20, <1>a, <1>0 DEF UpdateDone, FilesOK, QueueOK
  <2> QED
    BY <2>1, <2>2 DEF TypeInv
<1>21. CASE NetworkState
  BY <1>21, <1>a DEF NetworkState, thread, flags, files, TypeInv, ThreadOK,
     CountOK, FlagsOK, PieceOK, FilesOK, StateOK, QueueOK, TimeOK
<1>22. CASE MnldUpdate
  <2>1. ThreadOK' /\ CountOK' /\ FlagsOK' /\ PieceOK' /\ StateOK' /\ TimeOK'
        /\ (ev \in Envs)'
    BY <1>22, <1>a DEF MnldUpdate, thread, flags, ThreadOK, CountOK, FlagsOK,
                       PieceOK, StateOK, TimeOK
  <2>2. FilesOK' /\ QueueOK'
    BY <1>22, <1>a, <1>0 DEF MnldUpdate, FilesOK, QueueOK
  <2> QED
    BY <2>1, <2>2 DEF TypeInv
<1>23. CASE DayPasses
  <2>1. TimeOK'
    BY <1>23, <1>a, <1>0 DEF DayPasses, TimeOK
  <2>2. (ThreadOK /\ CountOK /\ FlagsOK /\ PieceOK /\ FilesOK /\ StateOK
         /\ QueueOK /\ ev \in Envs)'
    BY <1>23, <1>a DEF DayPasses, thread, flags, files, ThreadOK, CountOK,
       FlagsOK, PieceOK, FilesOK, StateOK, QueueOK
  <2> QED
    BY <2>1, <2>2 DEF TypeInv
<1>24. CASE UNCHANGED vars
  BY <1>24, <1>a DEF vars, thread, flags, files, env, TypeInv, ThreadOK,
     CountOK, FlagsOK, PieceOK, FilesOK, StateOK, QueueOK, TimeOK
<1> QED
  BY <1>1, <1>2, <1>3, <1>4, <1>5, <1>6, <1>7, <1>8, <1>9, <1>10, <1>11,
     <1>12, <1>13, <1>14, <1>15, <1>16, <1>17, <1>18, <1>19, <1>20, <1>21,
     <1>22, <1>23, <1>24 DEF Next, EpoThread, Framework

\* The types, in every state.
LEMMA TypeAlways == Spec => []TypeInv
BY TypeInit, TypeStep, PTL DEF Spec

\* The thread's counters, the file names it forms, its files and its requests
\* to mnld stay within their types in every environment, whatever days,
\* periods and limits are configured.
THEOREM TypeCorrect == Spec => []TypeOK
<1>1. TypeInv => TypeOK
  <2> SUFFICES ASSUME TypeInv PROVE TypeOK
    OBVIOUS
  <2>1. day \in 1..MaxDay /\ srv \in 1..MaxDay
    BY EpoAssumption DEF TypeInv, TimeOK
  <2> QED
    BY <2>1 DEF TypeInv, TypeOK, ThreadOK, CountOK, FlagsOK, PieceOK, FilesOK,
                StateOK, QueueOK
<1> QED
  BY <1>1, TypeAlways, PTL

-----------------------------------------------------------------------------
(* What the files hold. *)

\* The whole pieces of the file are the first n of the server's data of day g.
Good(f, n, g) ==
    /\ WellFormed(f)
    /\ \A i \in Whole(f) : f[i].p < n /\ f[i].g = g
    /\ \A q \in 0..(n - 1) : \E i \in Whole(f) : f[i].p = q

\* So it is with n = count, and the piece file before remembers the day.
Counted(f, n) == Good(f, n, piece[n - 1]) /\ piece[n - 1] \in 1..srv

\* The thread fetches the piece it is going to count, and the server's data
\* never becomes older.
FetchInv ==
    /\ tpc \in {"get", "append", "check"} => name = count
    /\ tpc \in {"append", "check"} =>
          \/ piece[count] = Short
          \/ piece[count] \in 1..srv /\ (count > 0 => piece[count - 1] <= piece[count])

\* EPOHAL.DAT before, during and after the merge of a piece.
FileInv ==
    /\ tpc \notin {"check", "count", "finish"} =>
          WellFormed(hal) /\ (count > 0 => Counted(hal, count))
    /\ tpc = "check" =>
          \E f \in Seq(Data) :
             /\ hal = Append(f, [p |-> count, g |-> piece[count]])
             /\ IF count = 0 THEN f = <<>> ELSE Counted(f, count)
    /\ tpc = "count" => Counted(hal, count + 1)
    /\ tpc = "finish" => Counted(hal, count) /\ count >= CountTemp /\ count > 0

\* Without sessions nobody asks mnld for anything.
AloneInv == "start" \notin ev => fw = "stopped" /\ upd = 0 /\ done = 0

\* With sessions there is only one day's data, which does not expire, so that a
\* session never finds a reason to restart a download that is under way.
SessionsInv ==
    "start" \in ev =>
      /\ srv = day /\ WellFormed(hal)
      /\ \A i \in DOMAIN hal : hal[i].g = day
      /\ tpc \in {"append", "check"} => piece[count] = day
      /\ fw \in {"download", "update"} => tpc \in {"loop", "get"}
      /\ fw = "download" => hal = <<>> /\ count = 0
      /\ fw # "renew"

EpoInv ==
    Undisturbed => /\ FetchInv /\ FileInv /\ AloneInv /\ SessionsInv
                   /\ WellFormed(dat)

-----------------------------------------------------------------------------
(* Facts about merged files. *)

\* What Append does to a file: the pieces it had keep their places, and the
\* new one comes last.
LEMMA AppendPieces ==
    ASSUME NEW f \in Seq(Data), NEW x \in Data
    PROVE  /\ Append(f, x) \in Seq(Data) /\ Len(Append(f, x)) = Len(f) + 1
           /\ DOMAIN Append(f, x) = 1..(Len(f) + 1) /\ DOMAIN f = 1..Len(f)
           /\ Len(f) \in Nat
           /\ \A i \in 1..Len(f) : Append(f, x)[i] = f[i] /\ f[i] \in Data
           /\ Append(f, x)[Len(f) + 1] = x
<1>1. Len(f) \in Nat /\ DOMAIN f = 1..Len(f) /\ \A i \in 1..Len(f) : f[i] \in Data
  BY LenProperties, ElementOfSeq
<1> QED
  BY <1>1, AppendProperties

\* The whole pieces of a file with one more piece.
LEMMA WholeAppend ==
    ASSUME NEW f \in Seq(Data), NEW x \in Data
    PROVE  Whole(Append(f, x)) =
             Whole(f) \cup (IF x.g = Short THEN {} ELSE {Len(f) + 1})
<1>1. Len(f) \in Nat
  BY AppendPieces
<1>2. ASSUME NEW i PROVE i \in Whole(Append(f, x)) <=>
         i \in Whole(f) \cup (IF x.g = Short THEN {} ELSE {Len(f) + 1})
  <2>1. CASE i \in 1..Len(f)
    BY <1>1, <2>1, AppendPieces DEF Whole
  <2>2. CASE i \notin 1..Len(f)
    <3>1. i \notin Whole(f)
      BY <2>2, AppendPieces DEF Whole
    <3>2. i \in 1..(Len(f) + 1) <=> i = Len(f) + 1
      BY <1>1, <2>2
    <3> QED
      BY <3>1, <3>2, AppendPieces DEF Whole
  <2> QED
    BY <2>1, <2>2
<1> QED
  BY <1>2

\* Places of whole pieces are places of pieces.
LEMMA WholeIn ==
    ASSUME NEW f \in Seq(Data), NEW i \in Whole(f)
    PROVE  i \in 1..Len(f) /\ f[i] \in Data /\ f[i].g # Short
BY LenProperties, ElementOfSeq DEF Whole

\* No file, and a file of one piece that is the first or too short.
LEMMA SmallFiles ==
    /\ WellFormed(<<>>)
    /\ \A x \in Data : x.p = 0 \/ x.g = Short => WellFormed(<<x>>)
<1>1. WellFormed(<<>>)
  BY DEF WellFormed, Whole
<1>2. ASSUME NEW x \in Data, x.p = 0 \/ x.g = Short PROVE WellFormed(<<x>>)
  <2>1. DOMAIN <<x>> = {1} /\ <<x>>[1] = x /\ Len(<<x>>) = 1
    OBVIOUS
  <2>2. \A i \in Whole(<<x>>) : i = 1 /\ x.p = 0
    BY <1>2, <2>1 DEF Whole
  <2>3. \A i, j \in Whole(<<x>>) :
           <<x>>[i].g = <<x>>[j].g /\ (i < j => <<x>>[i].p < <<x>>[j].p)
    BY <2>1, <2>2
  <2>4. \A j \in Whole(<<x>>) :
           <<x>>[j].p # 0 => \E i \in Whole(<<x>>) : <<x>>[i].p = <<x>>[j].p - 1
    BY <2>1, <2>2
  <2> QED
    BY <2>1, <2>3, <2>4 DEF WellFormed
<1> QED
  BY <1>1, <1>2

\* A well-formed file with a whole piece begins with the first piece.
LEMMA FirstPiece ==
    ASSUME NEW f \in Seq(Data), WellFormed(f), f # <<>>, 1 \in Whole(f)
    PROVE  f[1].p = 0
<1> SUFFICES ASSUME f[1].p # 0 PROVE FALSE
  OBVIOUS
<1>1. PICK i \in Whole(f) : f[i].p = f[1].p - 1
  BY DEF WellFormed
<1>2. i \in 1..Len(f) /\ f[i].p \in 0..9 /\ f[1].p \in 0..9 /\ Len(f) \in Nat
  BY WholeIn, LenProperties DEF Data, Piece
<1>3. i > 1 => f[1].p < f[i].p
  BY <1>2 DEF WellFormed
<1> QED
  BY <1>1, <1>2, <1>3

\* A piece that is too short harms no file that has its first piece.
LEMMA GoodShort ==
    ASSUME NEW f \in Seq(Data), NEW n \in 1..10, NEW g, Good(f, n, g),
           NEW x \in Data, x.g = Short
    PROVE  Good(Append(f, x), n, g)
<1> DEFINE h == Append(f, x)
<1>1. Whole(h) = Whole(f)
  BY WholeAppend
<1>2. \A i \in Whole(f) : h[i] = f[i] /\ i \in 1..Len(f)
  BY WholeIn, AppendPieces
<1>3. 1 \in Whole(h)
  <2>1. PICK i \in Whole(f) : f[i].p = 0
    BY DEF Good
  <2>2. i \in 1..Len(f) /\ Len(f) \in Nat
    BY WholeIn, LenProperties
  <2>3. Len(f) > 1 => 1 \in Whole(f)
    BY DEF Good, WellFormed
  <2> QED
    BY <1>1, <2>1, <2>2, <2>3
<1> HIDE DEF h
<1>4. WellFormed(h)
  BY <1>1, <1>2, <1>3 DEF Good, WellFormed
<1>5. \A i \in Whole(h) : h[i].p < n /\ h[i].g = g
  BY <1>1, <1>2 DEF Good
<1>6. \A q \in 0..(n - 1) : \E i \in Whole(h) : h[i].p = q
  BY <1>1, <1>2 DEF Good
<1> QED
  BY <1>4, <1>5, <1>6 DEF Good, h

\* The next piece of the same data makes the file longer by one.
LEMMA GoodNext ==
    ASSUME NEW f \in Seq(Data), NEW n \in 0..9, NEW g \in 1..MaxDay,
           IF n = 0 THEN f = <<>> ELSE Good(f, n, g)
    PROVE  Good(Append(f, [p |-> n, g |-> g]), n + 1, g)
<1> DEFINE x == [p |-> n, g |-> g]
           h == Append(f, x)
           k == Len(f) + 1
<1>0. x \in Data /\ x.p = n /\ x.g = g /\ g # Short
  BY EpoAssumption DEF Data, Piece, Short
<1>1. Whole(h) = Whole(f) \cup {k}
  BY <1>0, WholeAppend
<1>2. /\ \A i \in Whole(f) : h[i] = f[i] /\ i \in 1..Len(f) /\ f[i] \in Data
      /\ h[k] = x /\ Len(h) = k /\ Len(f) \in Nat
  BY <1>0, WholeIn, AppendPieces
<1>3. \A i \in Whole(f) : f[i].p < n /\ f[i].g = g
  <2>1. CASE n = 0
    BY <2>1 DEF Whole
  <2>2. CASE n # 0
    BY <2>2 DEF Good
  <2> QED
    BY <2>1, <2>2
<1>4. \A q \in 0..(n - 1) : \E i \in Whole(f) : f[i].p = q
  <2>1. CASE n = 0
    BY <2>1
  <2>2. CASE n # 0
    BY <2>2 DEF Good
  <2> QED
    BY <2>1, <2>2
<1>5. \A i, j \in Whole(f) : i < j => f[i].p < f[j].p
  <2>1. CASE n = 0
    BY <2>1 DEF Whole
  <2>2. CASE n # 0
    BY <2>2 DEF Good, WellFormed
  <2> QED
    BY <2>1, <2>2
<1>6. 1 \in Whole(h)
  <2>1. CASE n = 0
    BY <1>1, <2>1
  <2>2. CASE n # 0
    <3>1. PICK i \in Whole(f) : f[i].p = 0
      BY <1>4, <2>2
    <3>2. Len(f) > 1 => 1 \in Whole(f)
      BY <2>2 DEF Good, WellFormed
    <3> QED
      BY <1>1, <1>2, <3>1, <3>2
  <2> QED
    BY <2>1, <2>2
<1>7. \A i \in Whole(h) : /\ i \in 1..k /\ h[i].p \in 0..n /\ h[i].g = g
                          /\ (i < k => h[i].p < n /\ i \in Whole(f) /\ h[i] = f[i])
                          /\ (i = k => h[i].p = n)
  <2> HIDE DEF h, x
  <2> SUFFICES ASSUME NEW i \in Whole(h)
               PROVE  /\ i \in 1..k /\ h[i].p \in 0..n /\ h[i].g = g
                      /\ (i < k => h[i].p < n /\ i \in Whole(f) /\ h[i] = f[i])
                      /\ (i = k => h[i].p = n)
    OBVIOUS
  <2>1. CASE i = k
    BY <1>0, <1>2, <2>1
  <2>2. CASE i # k
    <3>1. i \in Whole(f)
      BY <1>1, <2>2
    <3>2. f[i].p \in 0..9 /\ f[i].p < n /\ f[i].g = g /\ h[i] = f[i]
      BY <1>2, <1>3, <3>1 DEF Data, Piece
    <3> QED
      BY <1>2, <3>1, <3>2
  <2> QED
    BY <2>1, <2>2
<1> HIDE DEF h, x, k
<1>8. \A i, j \in Whole(h) : h[i].g = h[j].g /\ (i < j => h[i].p < h[j].p)
  <2> SUFFICES ASSUME NEW i \in Whole(h), NEW j \in Whole(h)
               PROVE  h[i].g = h[j].g /\ (i < j => h[i].p < h[j].p)
    OBVIOUS
  <2>1. k \in Nat
    BY <1>2 DEF k
  <2>2. CASE j = k
    BY <1>7, <2>1, <2>2
  <2>3. CASE j # k
    <3>1. i < j => i < k /\ j < k
      BY <1>7, <2>1, <2>3
    <3>2. i < j => h[i].p < h[j].p
      BY <1>5, <1>7, <3>1
    <3> QED
      BY <1>7, <3>2
  <2> QED
    BY <2>2, <2>3
<1>9. \A q \in 0..n : \E i \in Whole(h) : h[i].p = q
  <2> SUFFICES ASSUME NEW q \in 0..n PROVE \E i \in Whole(h) : h[i].p = q
    OBVIOUS
  <2>1. CASE q = n
    BY <1>0, <1>1, <1>2, <2>1
  <2>2. CASE q # n
    BY <1>1, <1>2, <1>4, <2>2
  <2> QED
    BY <2>1, <2>2
<1>10. \A j \in Whole(h) : h[j].p # 0 => \E i \in Whole(h) : h[i].p = h[j].p - 1
  <2> SUFFICES ASSUME NEW j \in Whole(h), h[j].p # 0
               PROVE  \E i \in Whole(h) : h[i].p = h[j].p - 1
    OBVIOUS
  <2>1. h[j].p - 1 \in 0..n
    BY <1>7
  <2> QED
    BY <1>9, <2>1
<1>11. WellFormed(h)
  BY <1>6, <1>8, <1>10 DEF WellFormed
<1>12. Good(h, n + 1, g)
  BY <1>7, <1>9, <1>11 DEF Good
<1> QED
  BY <1>12 DEF h, x

-----------------------------------------------------------------------------

\* What holds in an undisturbed environment.
Kept == FetchInv /\ FileInv /\ AloneInv /\ SessionsInv /\ WellFormed(dat)

\* The invariant holds initially.
LEMMA EpoInit == Init => EpoInv
<1> SUFFICES ASSUME Init, Undisturbed PROVE Kept
  BY DEF EpoInv, Kept
<1>1. FetchInv /\ AloneInv
  BY DEF Init, FetchInv, AloneInv
<1>2. FileInv
  BY SmallFiles DEF Init, FileInv
<1>3. SessionsInv
  BY SmallFiles DEF Init, SessionsInv, Undisturbed
<1>4. WellFormed(dat)
  <2>1. dat = <<>> \/ dat = <<[p |-> 0, g |-> 1]>>
    BY Zenon DEF Init
  <2>2. [p |-> 0, g |-> 1] \in Data
    BY EpoAssumption DEF Data, Piece, Short
  <2>3. WellFormed(<<[p |-> 0, g |-> 1]>>)
    BY <2>2, SmallFiles
  <2> QED
    BY <2>1, <2>3, SmallFiles
<1> QED
  BY <1>1, <1>2, <1>3, <1>4 DEF Kept

\* The environment never changes.
LEMMA EnvFixed == [Next]_vars => ev' = ev
<1> SUFFICES ASSUME [Next]_vars PROVE ev' = ev
  OBVIOUS
<1>1. CASE EpoThread
  BY <1>1 DEF EpoThread, LoopHead, GetPiece, GetFails, AppendPiece, PieceShort,
     DataChanged, DataSame, CountPiece, Finish, MainReturn, SkipRetry, Retry,
     Retried, WifiTragger, env
<1>2. CASE Framework \/ TimerExpires \/ UpdateDone
  BY <1>2 DEF Framework, StartCheck, StartDownload, StartUpdate, StartStop,
     TimerExpires, UpdateDone
<1>3. CASE NetworkState \/ MnldUpdate \/ DayPasses
  BY <1>3 DEF NetworkState, MnldUpdate, DayPasses
<1>4. CASE UNCHANGED vars
  BY <1>4 DEF vars, env
<1> QED
  BY <1>1, <1>2, <1>3, <1>4 DEF Next

\* Where the thread is between two pieces.
Resting == {"loop", "main", "retry", "retried", "wifi"}

\* The thread goes on without touching the files.
LEMMA RestStep ==
    ASSUME TypeInv, Kept, StartWaits, Undisturbed, tpc \in Resting, tpc' \in Resting,
           UNCHANGED <<count, piece, hal, dat, fw, upd, done, day, srv, ev>>
    PROVE  Kept'
<1>1. FetchInv' /\ AloneInv'
  BY DEF Kept, FetchInv, AloneInv, Resting
<1>2. FileInv'
  BY DEF Kept, FileInv, Resting, Counted
<1>3. SessionsInv'
  BY DEF Kept, SessionsInv, Resting, StartWaits, Undisturbed
<1> QED
  BY <1>1, <1>2, <1>3 DEF Kept

\* The download starts anew.
LEMMA AnewStep ==
    ASSUME TypeInv, Kept, StartWaits, Undisturbed, tpc' \in Resting,
           count' = 0, hal' = <<>>,
           UNCHANGED <<dat, fw, upd, done, day, srv, ev>>
    PROVE  Kept'
<1>1. FetchInv' /\ AloneInv'
  BY DEF Kept, FetchInv, AloneInv, Resting
<1>2. FileInv'
  BY SmallFiles DEF FileInv, Resting
<1>3. SessionsInv'
  BY SmallFiles DEF Kept, SessionsInv, Resting, StartWaits, Undisturbed
<1> QED
  BY <1>1, <1>2, <1>3 DEF Kept

\* Every step of the thread keeps the invariant.
LEMMA ThreadStep ==
    ASSUME TypeInv, Kept, Undisturbed, EpoThread, ev' = ev
    PROVE  Kept'
<1>0. /\ hal \in Seq(Data) /\ caller \in {"main", "retried"}
      /\ count \in 0..10 /\ (tpc # "finish" => count \in 0..9)
  BY DEF TypeInv, CountOK, FilesOK, ThreadOK
<1>p. DOMAIN piece = 0..9 /\ piece \in [Piece -> Short..MaxDay]
  BY DEF TypeInv, PieceOK, Piece
<1>m. srv \in Nat /\ (\A n \in 1..srv : n \in 1..MaxDay /\ n # Short)
      /\ srv \in 1..MaxDay /\ day \in 1..MaxDay
  BY EpoAssumption DEF TypeInv, TimeOK, Short
<1>f. FetchInv /\ FileInv /\ AloneInv /\ SessionsInv /\ WellFormed(dat)
  BY DEF Kept
<1>w. StartWaits
  BY DEF EpoThread
<1>s. "start" \in ev => fw \notin {"download", "renew", "update"}
  BY <1>w DEF StartWaits, Undisturbed
<1>1. CASE LoopHead
  <2>0. UNCHANGED <<count, piece, hal, dat, fw, upd, done, day, srv>>
    BY <1>1 DEF LoopHead, env
  <2>1. CASE ~updated
    BY <1>1, <1>w, <2>0, <2>1, RestStep DEF LoopHead, Resting
  <2>2. CASE updated
    <3>0. tpc = "loop" /\ tpc' = "get" /\ name' = count
      BY <1>1, <2>2 DEF LoopHead
    <3>1. FetchInv' /\ AloneInv'
      BY <1>f, <2>0, <3>0 DEF FetchInv, AloneInv
    <3>2. FileInv'
      BY <1>f, <2>0, <3>0 DEF FileInv, Counted
    <3>3. SessionsInv'
      BY <1>f, <1>s, <2>0, <3>0 DEF SessionsInv
    <3> QED
      BY <1>f, <2>0, <3>1, <3>2, <3>3 DEF Kept
  <2> QED
    BY <2>1, <2>2
<1>2. CASE GetPiece
  <2>0. /\ UNCHANGED <<count, name, hal, dat, fw, upd, done, day, srv>>
        /\ tpc = "get" /\ tpc' = "append" /\ name = count
    BY <1>2, <1>f DEF GetPiece, env, flags, FetchInv
  <2>1. /\ piece'[count] = srv \/ ("short" \in ev /\ piece'[count] = Short)
        /\ count > 0 => piece'[count - 1] = piece[count - 1]
    <3>1. count \in DOMAIN piece /\ (count > 0 => count - 1 # count)
      BY <1>0, <1>p, <2>0
    <3>2. \/ piece' = [piece EXCEPT ![count] = srv]
          \/ "short" \in ev /\ piece' = [piece EXCEPT ![count] = Short]
      BY <1>2, <2>0 DEF GetPiece
    <3>3. count > 0 => count - 1 \in DOMAIN piece
      BY <1>0, <1>p, <2>0
    <3> QED
      BY <3>1, <3>2, <3>3
  <2>2. FetchInv' /\ AloneInv'
    <3>1. count > 0 => piece[count - 1] \in 1..srv
      BY <1>f, <2>0 DEF FileInv, Counted
    <3>2. srv \in 1..srv /\ (count > 0 => piece[count - 1] <= srv)
      BY <1>m, <3>1
    <3> QED
      BY <1>f, <2>0, <2>1, <3>2 DEF FetchInv, AloneInv
  <2>3. FileInv'
    BY <1>0, <1>f, <2>0, <2>1 DEF FileInv, Counted
  <2>4. SessionsInv'
    BY <1>f, <1>s, <2>0, <2>1 DEF SessionsInv, Undisturbed
  <2> QED
    BY <1>f, <2>0, <2>2, <2>3, <2>4 DEF Kept
<1>3. CASE GetFails
  <2>0. /\ UNCHANGED <<count, name, hal, dat, fw, upd, done, day, srv>>
        /\ tpc = "get" /\ tpc' = caller /\ name = count
    BY <1>3, <1>f DEF GetFails, env, flags, FetchInv
  <2>1. count > 0 => piece'[count - 1] = piece[count - 1]
    <3>1. count > 0 => count - 1 # count /\ count - 1 \in DOMAIN piece
      BY <1>0, <1>p, <2>0
    <3>2. piece' \in {piece, [piece EXCEPT ![count] = 0]}
      BY <1>3, <2>0 DEF GetFails
    <3> QED
      BY <3>1, <3>2
  <2>2. FetchInv' /\ AloneInv'
    BY <1>0, <1>f, <2>0 DEF FetchInv, AloneInv
  <2>3. FileInv'
    BY <1>0, <1>f, <2>0, <2>1 DEF FileInv, Counted
  <2>4. SessionsInv'
    BY <1>0, <1>f, <1>s, <2>0 DEF SessionsInv
  <2> QED
    BY <1>f, <2>0, <2>2, <2>3, <2>4 DEF Kept
<1>4. CASE AppendPiece
  <2>0. /\ UNCHANGED <<count, name, piece, dat, fw, upd, done, day, srv>>
        /\ tpc = "append" /\ tpc' = "check" /\ name = count
    BY <1>4, <1>f DEF AppendPiece, env, flags, FetchInv
  <2> DEFINE f == IF count = 0 THEN <<>> ELSE hal
  <2>1. /\ hal' = Append(f, [p |-> count, g |-> piece[count]])
        /\ f \in Seq(Data) /\ (IF count = 0 THEN f = <<>> ELSE Counted(f, count))
    <3>1. hal' = Append(f, [p |-> count, g |-> piece[count]])
      BY <1>4, <2>0 DEF AppendPiece, Undisturbed
    <3>2. f \in Seq(Data)
      BY <1>0
    <3>3. IF count = 0 THEN f = <<>> ELSE Counted(f, count)
      <4>1. count # 0 => Counted(hal, count)
        BY <1>0, <1>f, <2>0 DEF FileInv
      <4> QED
        BY <4>1
    <3> QED
      BY <3>1, <3>2, <3>3
  <2> HIDE DEF f
  <2>2. FetchInv' /\ AloneInv'
    BY <1>f, <2>0 DEF FetchInv, AloneInv
  <2>3. FileInv'
    <3>1. \E k \in Seq(Data) :
             /\ hal' = Append(k, [p |-> count', g |-> piece'[count']])
             /\ IF count' = 0 THEN k = <<>>
                ELSE /\ Good(k, count', piece'[count' - 1])
                     /\ piece'[count' - 1] \in 1..srv'
      <4>1. IF count = 0 THEN f = <<>>
            ELSE Good(f, count, piece[count - 1]) /\ piece[count - 1] \in 1..srv
        BY <2>1 DEF Counted
      <4> QED
        BY <2>0, <2>1, <4>1
    <3> QED
      BY <2>0, <3>1 DEF FileInv, Counted
  <2>4. SessionsInv'
    <3> SUFFICES ASSUME "start" \in ev PROVE SessionsInv'
      BY DEF SessionsInv
    <3>1. piece[count] = day /\ day \in 1..MaxDay /\ count \in 0..9 /\ srv = day
      BY <1>0, <1>m, <1>f, <2>0 DEF SessionsInv
    <3>2. \A i \in DOMAIN f : f[i].g = day
      BY <1>f DEF SessionsInv, f
    <3>3. IF count = 0 THEN f = <<>> ELSE Good(f, count, day)
      <4>1. CASE count = 0
        BY <4>1, <2>1
      <4>2. CASE count # 0
        <5>1. Good(f, count, piece[count - 1]) /\ piece[count - 1] # Short
          BY <1>m, <2>1, <4>2 DEF Counted
        <5>2. PICK i \in Whole(f) : f[i].p = 0 /\ f[i].g = piece[count - 1]
          <6>1. 0 \in 0..(count - 1)
            BY <1>0, <4>2
          <6> QED
            BY <5>1, <6>1 DEF Good
        <5>3. piece[count - 1] = day
          BY <3>2, <5>2 DEF Whole
        <5> QED
          BY <4>2, <5>1, <5>3
      <4> QED
        BY <4>1, <4>2
    <3>4. WellFormed(hal')
      BY <2>1, <3>1, <3>3, GoodNext DEF Good
    <3>5. \A i \in DOMAIN hal' : hal'[i].g = day
      <4>1. [p |-> count, g |-> day] \in Data
        BY <3>1, EpoAssumption DEF Data, Piece, Short
      <4> QED
        BY <2>1, <3>1, <3>2, <4>1, AppendPieces
    <3> QED
      BY <1>f, <1>s, <2>0, <3>1, <3>4, <3>5 DEF SessionsInv
  <2> QED
    BY <1>f, <2>0, <2>2, <2>3, <2>4 DEF Kept
<1>5. CASE PieceShort
  <2>0. /\ UNCHANGED <<count, piece, hal, dat, fw, upd, done, day, srv>>
        /\ tpc = "check" /\ tpc' = caller /\ name = count /\ piece[count] = Short
    BY <1>5, <1>f DEF PieceShort, env, FetchInv
  <2>1. FetchInv' /\ AloneInv'
    BY <1>0, <1>f, <2>0 DEF FetchInv, AloneInv
  <2>2. FileInv'
    <3>1. PICK f \in Seq(Data) :
             /\ hal = Append(f, [p |-> count, g |-> piece[count]])
             /\ IF count = 0 THEN f = <<>> ELSE Counted(f, count)
      BY <1>f, <2>0 DEF FileInv
    <3>2. [p |-> count, g |-> piece[count]] \in Data
      <4>1. count \in Piece
        BY <1>0, <2>0 DEF Piece
      <4>2. piece[count] \in Short..MaxDay
        BY <1>p, <4>1
      <4> QED
        BY <4>1, <4>2 DEF Data
    <3>3. CASE count = 0
      <4>1. hal = <<[p |-> 0, g |-> Short]>>
        BY <2>0, <3>1, <3>3
      <4>2. WellFormed(hal)
        BY <2>0, <3>2, <3>3, <4>1, SmallFiles
      <4> QED
        <5>1. tpc' \in {"main", "retried"} /\ ~(count' > 0) /\ hal' = hal
          BY <1>0, <2>0, <3>3
        <5> QED
          BY <4>2, <5>1 DEF FileInv
    <3>4. CASE count # 0
      <4>1. Good(f, count, piece[count - 1]) /\ piece[count - 1] \in 1..srv
        BY <3>1, <3>4 DEF Counted
      <4>2. Good(hal, count, piece[count - 1])
        <5>1. count \in 1..10 /\ [p |-> count, g |-> piece[count]].g = Short
          BY <1>0, <2>0, <3>4
        <5> QED
          BY <3>1, <3>2, <4>1, <5>1, GoodShort
      <4>3. tpc' \in {"main", "retried"}
        BY <1>0, <2>0
      <4>4. WellFormed(hal)
        BY <4>2 DEF Good
      <4> QED
        BY <2>0, <4>1, <4>2, <4>3, <4>4 DEF FileInv, Counted
    <3> QED
      BY <3>3, <3>4
  <2>3. SessionsInv'
    BY <1>0, <1>f, <1>s, <2>0 DEF SessionsInv
  <2> QED
    BY <1>f, <2>0, <2>1, <2>2, <2>3 DEF Kept
<1>6. CASE DataChanged
  BY <1>0, <1>6, <1>w, AnewStep DEF DataChanged, env, Resting
<1>7. CASE DataSame
  <2>0. /\ UNCHANGED <<count, piece, hal, dat, fw, upd, done, day, srv>>
        /\ tpc = "check" /\ tpc' = "count" /\ name = count
    BY <1>7, <1>f DEF DataSame, env, flags, FetchInv
  <2>1. FetchInv' /\ AloneInv'
    BY <1>f, <2>0 DEF FetchInv, AloneInv
  <2>2. /\ piece[count] \in 1..srv
        /\ count > 0 => piece[count - 1] <= piece[count]
    BY <1>7, <1>f, <2>0 DEF DataSame, FetchInv
  <2>3. PICK f \in Seq(Data) :
           /\ hal = Append(f, [p |-> count, g |-> piece[count]])
           /\ IF count = 0 THEN f = <<>> ELSE Counted(f, count)
    BY <1>f, <2>0 DEF FileInv
  <2>4. count > 0 => piece[count - 1] = piece[count]
    <3> SUFFICES ASSUME count > 0 PROVE piece[count - 1] = piece[count]
      OBVIOUS
    <3>1. piece[count - 1] \in 1..srv
      BY <1>0, <2>3 DEF Counted
    <3>2. uTime_end = piece[count - 1] + 3 * count
      <4>1. piece[count - 1] \notin {0, Short}
        BY <1>m, <3>1
      <4> QED
        BY <1>0, <4>1 DEF uTime_end
    <3>3. uTime_start = piece[count] + 3 * count
      BY <2>0 DEF uTime_start
    <3>4. uTime_start - uTime_end < 1
      BY <1>7 DEF DataSame
    <3> QED
      BY <1>0, <1>m, <2>2, <3>1, <3>2, <3>3, <3>4
  <2>5. IF count = 0 THEN f = <<>> ELSE Good(f, count, piece[count])
    <3>1. CASE count = 0
      BY <2>3, <3>1
    <3>2. CASE count # 0
      BY <1>0, <2>3, <2>4, <3>2 DEF Counted
    <3> QED
      BY <3>1, <3>2
  <2>6. count \in 0..9 /\ piece[count] \in 1..MaxDay
    BY <1>0, <1>m, <2>0, <2>2
  <2>7. Good(hal, count + 1, piece[count])
    BY <2>3, <2>5, <2>6, GoodNext
  <2>8. FileInv'
    BY <1>0, <2>0, <2>2, <2>7 DEF FileInv, Counted
  <2>9. SessionsInv'
    BY <1>f, <1>s, <2>0 DEF SessionsInv
  <2> QED
    BY <1>f, <2>0, <2>1, <2>8, <2>9 DEF Kept
<1>8. CASE CountPiece
  <2>0. /\ UNCHANGED <<piece, hal, dat, fw, upd, done, day, srv>>
        /\ tpc = "count" /\ count' = count + 1
        /\ tpc' = caller \/ (tpc' = "finish" /\ ~(count + 1 < 10 /\ count + 1 < CountTemp))
    BY <1>8 DEF CountPiece, env, files
  <2>1. FetchInv' /\ AloneInv'
    BY <1>0, <1>f, <2>0 DEF FetchInv, AloneInv
  <2>2. FileInv'
    <3>1. Good(hal, count + 1, piece[count]) /\ piece[count] \in 1..srv
      BY <1>0, <1>f, <2>0 DEF FileInv, Counted
    <3>2. tpc' = "finish" => count + 1 >= CountTemp
      <4>1. CountTemp \in 0..10
        BY CountTempRange
      <4> QED
        BY <1>0, <2>0, <4>1
    <3>3. count' - 1 = count /\ count' > 0
      BY <1>0, <2>0
    <3>4. Counted(hal, count)' /\ WellFormed(hal')
      BY <2>0, <3>1, <3>3 DEF Counted, Good
    <3>5. tpc' \in {"main", "retried", "finish"}
      BY <1>0, <2>0
    <3> QED
      BY <2>0, <3>2, <3>3, <3>4, <3>5 DEF FileInv
  <2>3. SessionsInv'
    BY <1>0, <1>f, <1>s, <2>0 DEF SessionsInv
  <2> QED
    BY <1>f, <2>0, <2>1, <2>2, <2>3 DEF Kept
<1>9. CASE Finish
  <2>0. /\ UNCHANGED <<hal, fw, done, day, srv>>
        /\ tpc = "finish" /\ tpc' = caller /\ count' = 0
        /\ fw # "on" => UNCHANGED <<dat, upd>>
        /\ dat' = dat \/ dat' = <<>>
    BY <1>9 DEF Finish
  <2>1. FetchInv' /\ AloneInv'
    BY <1>0, <1>f, <2>0 DEF FetchInv, AloneInv
  <2>2. FileInv'
    <3>1. WellFormed(hal')
      BY <1>f, <2>0 DEF FileInv, Counted, Good
    <3>2. tpc' \in {"main", "retried"} /\ ~(count' > 0)
      BY <1>0, <2>0
    <3> QED
      BY <3>1, <3>2 DEF FileInv
  <2>3. SessionsInv'
    BY <1>0, <1>f, <1>s, <2>0 DEF SessionsInv
  <2>4. WellFormed(dat')
    BY <1>f, <2>0, SmallFiles
  <2> QED
    BY <2>1, <2>2, <2>3, <2>4 DEF Kept
<1>10. CASE MainReturn \/ SkipRetry \/ Retried
  BY <1>10, <1>w, RestStep DEF MainReturn, SkipRetry, Retried, files, flags,
     env, Resting
<1>11. CASE Retry
  <2>0. UNCHANGED <<piece, dat, fw, upd, done, day, srv>> /\ tpc = "retry"
    BY <1>11 DEF Retry, env
  <2>1. CASE tpc' = "retried"
    <3>1. count' = 0 /\ hal' = <<>>
      BY <1>11, <2>1 DEF Retry
    <3> QED
      BY <1>w, <2>0, <2>1, <3>1, AnewStep DEF Resting
  <2>2. CASE tpc' # "retried"
    <3>0. tpc' = "get" /\ name' = count /\ UNCHANGED <<count, hal>>
      BY <1>11, <2>2 DEF Retry
    <3>1. FetchInv' /\ AloneInv'
      BY <1>f, <2>0, <3>0 DEF FetchInv, AloneInv
    <3>2. FileInv'
      BY <1>f, <2>0, <3>0 DEF FileInv, Counted
    <3>3. SessionsInv'
      BY <1>f, <1>s, <2>0, <3>0 DEF SessionsInv
    <3> QED
      BY <1>f, <2>0, <3>1, <3>2, <3>3 DEF Kept
  <2> QED
    BY <2>1, <2>2
<1>12. CASE WifiTragger
  <2>1. /\ UNCHANGED <<piece, dat, fw, upd, done, day, srv>>
        /\ tpc = "wifi" /\ tpc' = "loop"
        /\ (count' = 0 /\ hal' = <<>>) \/ UNCHANGED <<count, hal>>
    BY <1>12, Zenon DEF WifiTragger, env
  <2> QED
    BY <1>w, <2>1, AnewStep, RestStep DEF Resting
<1> QED
  BY <1>1, <1>2, <1>3, <1>4, <1>5, <1>6, <1>7, <1>8, <1>9, <1>10, <1>11, <1>12
  DEF EpoThread

\* With sessions, EPOHAL.DAT never expires: its data is today's.
LEMMA NotExpired ==
    ASSUME TypeInv, Kept, "start" \in ev, hal # <<>>
    PROVE  TRUE \notin mtk_epo_is_expired(FALSE)
<1>0. /\ hal \in Seq(Data) /\ Len(hal) \in Nat /\ Len(hal) >= 1
      /\ DOMAIN hal = 1..Len(hal) /\ hal[1] \in Data /\ hal[Len(hal)] \in Data
  <2>1. hal \in Seq(Data)
    BY DEF TypeInv, FilesOK
  <2>2. Len(hal) \in Nat /\ DOMAIN hal = 1..Len(hal) /\ Len(hal) # 0
    BY <2>1, LenProperties, EmptySeq
  <2> QED
    BY <2>1, <2>2, ElementOfSeq
<1>1. day \in 1..MaxDay /\ MaxDay \in Nat /\ day # Short
  BY EpoAssumption DEF TypeInv, TimeOK, Short
<1>2. \A i \in DOMAIN hal : hal[i].g = day
  BY DEF Kept, SessionsInv
<1>3. hal[1].g = day /\ hal[Len(hal)].g = day
  BY <1>0, <1>2
<1>4. hal[1].p = 0
  <2>1. 1 \in Whole(hal)
    BY <1>0, <1>1, <1>3 DEF Whole
  <2>2. WellFormed(hal)
    BY DEF Kept, SessionsInv
  <2> QED
    BY <1>0, <2>1, <2>2, FirstPiece
<1>5. hal[Len(hal)].p \in 0..9
  BY <1>0 DEF Data, Piece
<1>6. TimedFile = hal /\ Readable(hal)
  BY <1>1, <1>3 DEF TimedFile, Readable
<1>7. FileStart(hal) = day
  BY <1>1, <1>3, <1>4 DEF FileStart
<1>8. \A n \in FileDays(hal) : n \in Nat /\ n >= 3
  BY <1>1, <1>3, <1>5, <1>7 DEF FileDays
<1>9. \A n \in Nat : n >= 3 => expired_set(n, FALSE) \in Nat /\ expired_set(n, FALSE) >= 2
  BY EpoAssumption DEF expired_set
<1>10. \A n \in FileDays(hal) : ~(day >= day + expired_set(n, FALSE))
  <2> SUFFICES ASSUME NEW n \in FileDays(hal)
               PROVE  ~(day >= day + expired_set(n, FALSE))
    OBVIOUS
  <2> DEFINE e == expired_set(n, FALSE)
  <2>1. e \in Nat /\ e >= 2
    BY <1>8, <1>9
  <2> HIDE DEF e
  <2>2. ~(day >= day + e)
    BY <1>1, <2>1
  <2> QED
    BY <2>2 DEF e
<1> QED
  BY <1>6, <1>7, <1>10 DEF mtk_epo_is_expired

\* Every step of the framework's thread, of mnld, of the timer, of the network
\* and of the server keeps the invariant.
LEMMA OthersStep ==
    ASSUME TypeInv, Kept, Undisturbed, ev' = ev,
           \/ TimerExpires \/ Framework \/ UpdateDone \/ NetworkState
           \/ MnldUpdate \/ DayPasses \/ UNCHANGED vars
    PROVE  Kept'
<1>f. FetchInv /\ FileInv /\ AloneInv /\ SessionsInv /\ WellFormed(dat)
  BY DEF Kept
<1>0. /\ hal \in Seq(Data) /\ count \in 0..10 /\ upd \in Nat /\ done \in Nat
      /\ srv \in Nat /\ day \in Nat /\ srv <= day
  BY EpoAssumption DEF TypeInv, CountOK, FilesOK, QueueOK, TimeOK
<1>h. hal = <<>> /\ tpc \in {"loop", "get"} => count = 0
  <2> SUFFICES ASSUME hal = <<>>, tpc \in {"loop", "get"}, count # 0 PROVE FALSE
    OBVIOUS
  <2>1. Counted(hal, count) /\ 0 \in 0..(count - 1)
    BY <1>0, <1>f DEF FileInv
  <2> QED
    BY <2>1 DEF Counted, Good, Whole
<1>1. CASE TimerExpires \/ NetworkState \/ UNCHANGED vars
  <2>1. UNCHANGED <<tpc, count, name, piece, hal, dat, fw, upd, done, day, srv>>
    BY <1>1 DEF TimerExpires, NetworkState, thread, flags, files, env, vars
  <2>2. FetchInv' /\ AloneInv'
    BY <1>f, <2>1 DEF FetchInv, AloneInv
  <2>3. FileInv'
    BY <1>f, <2>1 DEF FileInv, Counted
  <2>4. SessionsInv'
    BY <1>f, <2>1 DEF SessionsInv
  <2> QED
    BY <1>f, <2>1, <2>2, <2>3, <2>4 DEF Kept
<1>2. CASE StartCheck
  <2>0. /\ UNCHANGED <<tpc, name, piece, hal, dat, upd, done, day, srv>>
        /\ "start" \in ev
    BY <1>2 DEF StartCheck, thread, files
  <2>1. tpc \in {"loop", "get"}
    BY <1>2, <2>0 DEF StartCheck, EpoThreadWaits, Undisturbed
  <2>2. count' = count \/ (count' = 0 /\ TRUE \in mtk_epo_is_expired(FALSE))
    BY <1>2, Zenon DEF StartCheck
  <2>3. count' = count
    BY <1>h, <2>0, <2>1, <2>2, NotExpired
  <2>4. fw' # "renew" /\ (fw' = "download" => hal = <<>>)
    <3>1. CASE ~Enabled \/ (hal # <<>> /\ failed /\ conn /\ net # "data")
      BY <1>2, <2>0, <3>1, NotExpired DEF StartCheck
    <3>2. CASE Enabled /\ hal = <<>>
      BY <1>2, <3>2 DEF StartCheck
    <3>3. CASE hal # <<>> /\ ~(failed /\ conn /\ net # "data")
      BY <1>2, <2>0, <3>3, NotExpired DEF StartCheck
    <3> QED
      BY <3>1, <3>2, <3>3
  <2>5. FetchInv' /\ AloneInv'
    BY <1>f, <2>0, <2>3 DEF FetchInv, AloneInv
  <2>6. FileInv'
    BY <1>f, <2>0, <2>3 DEF FileInv, Counted
  <2>7. SessionsInv'
    BY <1>f, <1>h, <2>0, <2>1, <2>3, <2>4 DEF SessionsInv
  <2> QED
    BY <1>f, <2>0, <2>5, <2>6, <2>7 DEF Kept
<1>3. CASE StartDownload
  <2>0. /\ UNCHANGED <<tpc, name, piece, dat, upd, done, day, srv>>
        /\ fw \in {"download", "renew"} /\ fw' = "starting" /\ count' = 0
        /\ fw = "download" => hal' = hal
    BY <1>3 DEF StartDownload, thread
  <2>1. "start" \in ev
    BY <1>f, <2>0 DEF AloneInv
  <2>2. hal = <<>> /\ hal' = hal /\ count = 0 /\ count' = count
    BY <1>f, <2>0, <2>1 DEF SessionsInv
  <2>3. FetchInv' /\ AloneInv'
    BY <1>f, <2>0, <2>1, <2>2 DEF FetchInv, AloneInv
  <2>4. FileInv'
    BY <1>f, <2>0, <2>2 DEF FileInv, Counted
  <2>5. SessionsInv'
    BY <1>f, <2>0, <2>1, <2>2 DEF SessionsInv
  <2> QED
    BY <1>f, <2>0, <2>3, <2>4, <2>5 DEF Kept
<1>4. CASE StartUpdate \/ StartStop
  <2>0. /\ UNCHANGED <<tpc, count, name, piece, hal, done, day, srv>>
        /\ fw # "stopped" /\ fw' \in {"starting", "on", "stopped"}
        /\ dat' = dat \/ dat' = <<>>
    BY <1>4 DEF StartUpdate, StartStop, thread, flags, files
  <2>1. "start" \in ev
    BY <1>f, <2>0 DEF AloneInv
  <2>2. FetchInv' /\ AloneInv'
    BY <1>f, <2>0, <2>1 DEF FetchInv, AloneInv
  <2>3. FileInv'
    BY <1>f, <2>0 DEF FileInv, Counted
  <2>4. SessionsInv'
    BY <1>f, <2>0, <2>1 DEF SessionsInv
  <2>5. WellFormed(dat')
    BY <1>f, <2>0, SmallFiles
  <2> QED
    BY <2>2, <2>3, <2>4, <2>5 DEF Kept
<1>5. CASE UpdateDone
  <2>0. /\ UNCHANGED <<tpc, count, name, piece, dat, fw, upd, day, srv>>
        /\ done > 0 /\ EpoThreadWaits
        /\ hal' = hal \/ (count = 0 /\ hal' = <<>>)
    BY <1>5 DEF UpdateDone, thread, flags
  <2>1. "start" \in ev /\ tpc \in {"loop", "get"}
    BY <1>f, <2>0 DEF AloneInv, EpoThreadWaits, Undisturbed
  <2>2. CASE hal' = hal
    <3>1. FetchInv' /\ AloneInv'
      BY <1>f, <2>0, <2>1 DEF FetchInv, AloneInv
    <3>2. FileInv'
      BY <1>f, <2>0, <2>2 DEF FileInv, Counted
    <3>3. SessionsInv'
      BY <1>f, <2>0, <2>1, <2>2 DEF SessionsInv
    <3> QED
      BY <1>f, <2>0, <3>1, <3>2, <3>3 DEF Kept
  <2>3. CASE count = 0 /\ hal' = <<>>
    <3>1. FetchInv' /\ AloneInv'
      BY <1>f, <2>0, <2>1 DEF FetchInv, AloneInv
    <3>2. FileInv'
      BY <2>0, <2>1, <2>3, SmallFiles DEF FileInv
    <3>3. SessionsInv'
      BY <1>f, <2>0, <2>1, <2>3, SmallFiles DEF SessionsInv
    <3> QED
      BY <1>f, <2>0, <3>1, <3>2, <3>3 DEF Kept
  <2> QED
    BY <2>0, <2>2, <2>3
<1>6. CASE MnldUpdate
  <2>0. /\ UNCHANGED <<tpc, count, name, piece, hal, fw, day, srv>>
        /\ upd > 0 /\ (dat' = dat \/ dat' = hal)
    BY <1>6 DEF MnldUpdate, thread, flags
  <2>1. "start" \in ev
    BY <1>f, <2>0 DEF AloneInv
  <2>2. FetchInv' /\ AloneInv'
    BY <1>f, <2>0, <2>1 DEF FetchInv, AloneInv
  <2>3. FileInv'
    BY <1>f, <2>0 DEF FileInv, Counted
  <2>4. SessionsInv'
    BY <1>f, <2>0, <2>1 DEF SessionsInv
  <2>5. WellFormed(dat')
    BY <1>f, <2>0, <2>1 DEF SessionsInv
  <2> QED
    BY <2>2, <2>3, <2>4, <2>5 DEF Kept
<1>7. CASE DayPasses
  <2>0. /\ UNCHANGED <<tpc, count, name, piece, hal, dat, fw, upd, done>>
        /\ "day" \in ev /\ (srv' = srv \/ (srv < day /\ srv' = day))
    BY <1>7 DEF DayPasses, thread, flags, files
  <2>1. "start" \notin ev
    BY <2>0 DEF Undisturbed
  <2>2. \A n \in 1..srv : n \in 1..srv'
    BY <1>0, <2>0
  <2>3. FetchInv' /\ AloneInv'
    BY <1>f, <2>0, <2>2 DEF FetchInv, AloneInv
  <2>4. FileInv'
    <3>1. \A k, n : Counted(k, n) => Good(k, n, piece[n - 1]) /\ piece[n - 1] \in 1..srv'
      BY <2>2 DEF Counted
    <3> QED
      BY <1>f, <2>0, <3>1 DEF FileInv, Counted
  <2>5. SessionsInv'
    BY <2>1 DEF SessionsInv
  <2> QED
    BY <1>f, <2>0, <2>3, <2>4, <2>5 DEF Kept
<1> QED
  BY <1>1, <1>2, <1>3, <1>4, <1>5, <1>6, <1>7 DEF Framework

\* Every step keeps the invariant: the thread's and everybody else's.
LEMMA EpoStep == TypeInv /\ EpoInv /\ [Next]_vars => EpoInv'
<1> SUFFICES ASSUME TypeInv, EpoInv, [Next]_vars PROVE EpoInv'
  OBVIOUS
<1>1. ev' = ev
  BY EnvFixed
<1>2. ASSUME Undisturbed PROVE Kept'
  <2>1. Kept
    BY <1>2 DEF EpoInv, Kept
  <2>2. CASE EpoThread
    BY <1>1, <1>2, <2>1, <2>2, ThreadStep
  <2>3. CASE \/ TimerExpires \/ Framework \/ UpdateDone \/ NetworkState
             \/ MnldUpdate \/ DayPasses \/ UNCHANGED vars
    BY <1>1, <1>2, <2>1, <2>3, OthersStep
  <2> QED
    BY <2>2, <2>3 DEF Next
<1>3. Undisturbed' => Undisturbed
  BY <1>1 DEF Undisturbed
<1> QED
  BY <1>2, <1>3 DEF EpoInv, Kept

\* The invariant, in every state.
LEMMA EpoAlways == Spec => []EpoInv
<1>1. Spec => []TypeInv
  BY TypeAlways
<1> QED
  BY <1>1, EpoInit, EpoStep, PTL DEF Spec

\* EPOHAL.DAT never mixes two days' data and never skips, repeats or reorders a
\* piece, for any configuration, any number of days and of retries.
THEOREM HalAlwaysWellFormed == Spec => []HalWellFormed
<1>1. TypeInv /\ EpoInv => HalWellFormed
  <2> SUFFICES ASSUME TypeInv, EpoInv, Undisturbed, tpc # "check"
               PROVE  WellFormed(hal)
    BY DEF HalWellFormed
  <2>1. FileInv
    BY DEF EpoInv
  <2> QED
    BY <2>1 DEF FileInv, Counted, Good
<1> QED
  BY <1>1, TypeAlways, EpoAlways, PTL

\* Neither does what mnld takes over as EPO.DAT, as long as the sessions that
\* ask for it find one day's data and threads are switched where they wait.
THEOREM DatAlwaysWellFormed == Spec => []DatWellFormed
<1>1. EpoInv => DatWellFormed
  BY DEF EpoInv, DatWellFormed
<1> QED
  BY <1>1, EpoAlways, PTL

\* When the thread says that the download is complete, EPOHAL.DAT has every
\* piece the configured days need, unless a merge failed.
THEOREM CompletedAlwaysHasAll == Spec => []CompletedHasAll
<1>1. TypeInv /\ EpoInv => CompletedHasAll
  <2> SUFFICES ASSUME TypeInv, EpoInv, Undisturbed, tpc = "finish",
                      NEW q \in 0..LastPiece
               PROVE  \E i \in Whole(hal) : hal[i].p = q
    BY DEF CompletedHasAll
  <2>1. Good(hal, count, piece[count - 1]) /\ count >= CountTemp /\ count > 0
    BY DEF EpoInv, FileInv, Counted
  <2>2. q \in 0..(count - 1)
    <3>1. count \in 0..10 /\ CountTemp \in 0..10
      BY CountTempRange DEF TypeInv, CountOK
    <3> QED
      BY <2>1, <3>1 DEF LastPiece
  <2> QED
    BY <2>1, <2>2 DEF Good
<1> QED
  BY <1>1, TypeAlways, EpoAlways, PTL
=============================================================================
