--------------------------- MODULE BtVendorProofs ---------------------------
(***************************************************************************)
(* Proofs about BtVendor, for any number of cycles of initialisation and   *)
(* cleanup and any descriptors.                                            *)
(***************************************************************************)
EXTENDS BtVendor, TLAPS

\* Between initialisation and cleanup.
Running == stage \in {"ready", "up", "down"}

\* The library is held exactly where a load has worked and no cleanup has
\* followed, and the pointers point into it then.
LibInv ==
    /\ refs = 1 => resolved /\ Running
    /\ resolved /\ Running => /\ refs = 1 /\ mtklib_handle
                              /\ mtk_bt_enable = "mapped"
                              /\ mtk_bt_disable = "mapped"
    /\ Running => bt_vendor_cbacks

Shown == CallsReachLibrary /\ LibraryReleased

Inv == TypeOK /\ LibInv /\ Shown

LEMMA InvInit == Init => Inv
<1> SUFFICES ASSUME Init PROVE Inv
  OBVIOUS
<1>1. TypeOK
  BY Zenon DEF Init, TypeOK, Pointer, Fault
<1>2. LibInv
  <2>1. refs # 1
    BY DEF Init
  <2> QED
    BY <2>1, Zenon DEF Init, LibInv, Running
<1>3. Shown
  BY DEF Init, Shown, CallsReachLibrary, LibraryReleased
<1> QED
  BY <1>1, <1>2, <1>3 DEF Inv

\* The process may die where the library is not held, by a call that misses it
\* only after a load that failed.
LEMMA CrashStep ==
  ASSUME Inv, refs # 1, NEW what \in {"bad_enable", "bad_disable", "null_callback"},
         Crash(what), what = "null_callback" \/ ~resolved
  PROVE  Inv'
<1>1. /\ stage' = "dead" /\ fault' = what /\ refs' = refs
      /\ UNCHANGED <<bt_vendor_cbacks, mtklib_handle, mtk_bt_enable,
                     mtk_bt_disable, resolved, hci_tty_fd, open, ret>>
  BY DEF Crash, lib, fds
<1>3. TypeOK'
  BY <1>1 DEF Inv, TypeOK, Fault
<1>4. LibInv'
  BY <1>1 DEF LibInv, Running
<1>5. Shown'
  BY <1>1 DEF Shown, CallsReachLibrary, LibraryReleased
<1> QED
  BY <1>3, <1>4, <1>5 DEF Inv

LEMMA InvStep == Inv /\ [Next]_vars => Inv'
<1> SUFFICES ASSUME Inv, [Next]_vars PROVE Inv'
  OBVIOUS
<1> USE DEF Inv, Running, lib, fds
<1>f. Fds \subseteq Nat
  BY FdsAssumption
<1>1. CASE mtk_init
  <2>0. /\ stage = "off" /\ fault' = "none" /\ UNCHANGED fds
        /\ \/ ret' = -1 /\ UNCHANGED <<lib, refs, stage>>
           \/ /\ ret' = 0 /\ stage' = "ready" /\ bt_vendor_cbacks' = TRUE
              /\ NoLibrary \/ NoSymbol \/ Loaded
    BY <1>1 DEF mtk_init
  <2>r. refs = 0
    BY <2>0 DEF Shown, LibraryReleased
  <2>1. TypeOK'
    <3>1. CASE UNCHANGED <<lib, refs, stage>>
      BY <2>0, <3>1 DEF TypeOK, Fault
    <3>2. CASE NoLibrary /\ stage' = "ready" /\ bt_vendor_cbacks' = TRUE
      BY <2>0, <3>2 DEF NoLibrary, TypeOK, Fault
    <3>3. CASE NoSymbol /\ stage' = "ready" /\ bt_vendor_cbacks' = TRUE
      BY <2>0, <3>3 DEF NoSymbol, TypeOK, Fault, Pointer
    <3>4. CASE Loaded /\ stage' = "ready" /\ bt_vendor_cbacks' = TRUE
      BY <2>0, <2>r, <3>4 DEF Loaded, TypeOK, Fault, Pointer
    <3> QED
      BY <2>0, <3>1, <3>2, <3>3, <3>4
  <2>2. LibInv'
    BY <2>0, <2>r DEF LibInv, NoLibrary, NoSymbol, Loaded
  <2>3. Shown'
    BY <2>0, <2>r DEF Shown, CallsReachLibrary, LibraryReleased
  <2> QED
    BY <2>1, <2>2, <2>3
<1>2. CASE mtk_cleanup
  <2>1. TypeOK'
    <3>1. \A p \in Pointer : Closed(p) \in Pointer
      BY DEF Closed, Pointer
    <3>2. /\ mtk_bt_enable' \in Pointer /\ mtk_bt_disable' \in Pointer
          /\ fault' \in Fault /\ stage' = "off" /\ bt_vendor_cbacks' = FALSE
          /\ UNCHANGED <<mtklib_handle, resolved, fds, ret>>
      BY <1>2, <3>1 DEF mtk_cleanup, TypeOK, Fault
    <3>3. refs' \in {0, 1}
      BY <1>2 DEF mtk_cleanup, TypeOK
    <3> QED
      BY <3>2, <3>3 DEF TypeOK
  <2>2. LibInv'
    BY <1>2 DEF mtk_cleanup, LibInv, TypeOK
  <2>3. Shown'
    BY <1>2 DEF mtk_cleanup, TypeOK, LibInv, Shown, CallsReachLibrary, LibraryReleased
  <2> QED
    BY <2>1, <2>2, <2>3
<1>3. CASE mtk_open
  <2>1. CASE mtk_bt_enable # "mapped" /\ Crash("bad_enable")
    <3>1. ~resolved /\ refs # 1
      BY <1>3, <2>1 DEF mtk_open, LibInv
    <3> QED
      BY <2>1, <3>1, CrashStep
  <2>2. CASE mtk_bt_enable = "mapped"
    <3>0. /\ stage = "ready" /\ stage' = "up" /\ fault' = "none"
          /\ UNCHANGED <<lib, refs>>
          /\ \/ \E fd \in Fds : ret' = 1 /\ open' = fd /\ hci_tty_fd' = fd
             \/ ret' = -1 /\ UNCHANGED <<hci_tty_fd, open>>
      BY <1>3, <2>2 DEF mtk_open
    <3>1. TypeOK'
      BY <3>0 DEF TypeOK, Fault
    <3>2. LibInv'
      BY <3>0 DEF LibInv
    <3>3. Shown'
      BY <3>0 DEF Shown, CallsReachLibrary, LibraryReleased
    <3> QED
      BY <3>1, <3>2, <3>3
  <2> QED
    BY <1>3, <2>1, <2>2 DEF mtk_open
<1>4. CASE mtk_close
  <2>1. CASE mtk_bt_disable # "mapped" /\ Crash("bad_disable")
    <3>1. ~resolved /\ refs # 1
      BY <1>4, <2>1 DEF mtk_close, LibInv
    <3> QED
      BY <2>1, <3>1, CrashStep
  <2>2. CASE hci_tty_fd = -1 \/ mtk_bt_disable = "mapped"
    <3>0. /\ stage = "up" /\ stage' = "down" /\ ret' \in {-1, 0}
          /\ UNCHANGED <<lib, refs, hci_tty_fd>>
          /\ \/ fault' = "none" /\ open' \in {-1, open}
             \/ fault' = "bad_fd" /\ open # hci_tty_fd /\ open' = open
      BY <1>4, <2>2 DEF mtk_close, Crash
    <3>1. TypeOK'
      BY <3>0 DEF TypeOK, Fault
    <3>2. LibInv'
      BY <3>0 DEF LibInv
    <3>3. Shown'
      BY <3>0 DEF Shown, CallsReachLibrary, LibraryReleased
    <3> QED
      BY <3>1, <3>2, <3>3
  <2> QED
    BY <1>4, <2>1, <2>2 DEF mtk_close
<1>5. CASE mtk_op
  <2>1. CASE ~bt_vendor_cbacks /\ Crash("null_callback")
    <3>1. refs # 1
      BY <2>1 DEF LibInv
    <3> QED
      BY <2>1, <3>1, CrashStep
  <2>2. CASE ret' = 0 /\ fault' = "none" /\ UNCHANGED <<lib, fds, refs, stage>>
    BY <2>2 DEF TypeOK, LibInv, Shown, Fault, CallsReachLibrary, LibraryReleased
  <2> QED
    BY <1>5, <2>1, <2>2 DEF mtk_op
<1>6. CASE NewProcess
  BY <1>6, Zenon DEF NewProcess, TypeOK, LibInv, Shown, Pointer, Fault,
     CallsReachLibrary, LibraryReleased
<1>7. CASE UNCHANGED vars
  BY <1>7 DEF vars, TypeOK, LibInv, Shown, CallsReachLibrary, LibraryReleased
<1> QED
  BY <1>1, <1>2, <1>3, <1>4, <1>5, <1>6, <1>7 DEF Next

LEMMA InvAlways == Spec => []Inv
BY InvInit, InvStep, PTL DEF Spec

\* mtk_init, mtk_op and mtk_cleanup keep to their types; in particular the
\* library is never held twice.
THEOREM BtTypeCorrect == Spec => []TypeOK
BY InvAlways, PTL DEF Inv

\* mtk_open and mtk_close call into the library as it is loaded in this
\* cycle, unless mtk_init could not load it.
THEOREM CallsAlwaysReachLibrary == Spec => []CallsReachLibrary
BY InvAlways, PTL DEF Inv, Shown

\* mtk_cleanup releases what mtk_init has loaded.
THEOREM LibraryAlwaysReleased == Spec => []LibraryReleased
BY InvAlways, PTL DEF Inv, Shown
=============================================================================
