------------------------------ MODULE BtVendor ------------------------------
(***************************************************************************)
(* The Bluetooth vendor library of src/libbt-vendor-mtk: the HCI stack     *)
(* (external) initialises it, opens and closes the transport through       *)
(* mtk_op, and cleans it up, again and again within one process.  The work *)
(* is done by libbluetoothdrv.so, which mtk_init loads: the dynamic linker *)
(* and that library are external.                                          *)
(***************************************************************************)
EXTENDS Integers

CONSTANT Fds       \* file descriptors mtk_bt_enable may return

ASSUME FdsAssumption == Fds \subseteq Nat

VARIABLES
    bt_vendor_cbacks,  \* is it set?
    mtklib_handle,     \* is it set?
    mtk_bt_enable, mtk_bt_disable, \* what the pointers point to
    hci_tty_fd,
    refs,              \* references to the library (external)
    open,              \* the open descriptor, -1 if there is none (external)
    stage,             \* where the stack is (external)
    ret,               \* what the last function returned
    resolved,          \* did the last load work? (history)
    fault              \* what went wrong in the last call (history)

lib  == <<bt_vendor_cbacks, mtklib_handle, mtk_bt_enable, mtk_bt_disable,
          resolved>>
fds  == <<hci_tty_fd, open>>
vars == <<lib, fds, refs, stage, ret, fault>>

Pointer == {"null", "mapped", "unmapped"}
Fault   == {"none", "null_callback", "bad_enable", "bad_disable", "bad_fd",
            "bad_dlclose"}

\* mapped pointers are those into the library as it is loaded now.
TypeOK ==
    /\ bt_vendor_cbacks \in BOOLEAN /\ mtklib_handle \in BOOLEAN
    /\ mtk_bt_enable \in Pointer /\ mtk_bt_disable \in Pointer
    /\ hci_tty_fd \in Fds \cup {-1} /\ open \in Fds \cup {-1}
    /\ refs \in {0, 1}
    /\ stage \in {"off", "ready", "up", "down", "dead"}
    /\ ret \in {-1, 0, 1}
    /\ resolved \in BOOLEAN /\ fault \in Fault

Init ==
    /\ bt_vendor_cbacks = FALSE /\ mtklib_handle = FALSE
    /\ mtk_bt_enable = "null" /\ mtk_bt_disable = "null"
    /\ hci_tty_fd = -1 /\ open = -1 /\ refs = 0 /\ stage = "off" /\ ret = 0
    /\ resolved = FALSE /\ fault = "none"

-----------------------------------------------------------------------------
(* mtk_init and mtk_cleanup. *)

\* A pointer after the last reference to the library has been closed.
Closed(p) == IF p = "mapped" THEN "unmapped" ELSE p

\* dlopen fails: the handle is NULL and 0, the value of success, is returned.
\* The pointers keep what the load before left in them.
NoLibrary ==
    /\ mtklib_handle' = FALSE /\ resolved' = FALSE
    /\ UNCHANGED <<mtk_bt_enable, mtk_bt_disable, refs>>

\* A symbol is missing: the library is closed at once, the handle is kept.
NoSymbol ==
    /\ mtklib_handle' = TRUE /\ resolved' = FALSE
    /\ mtk_bt_enable' \in {"null", "unmapped"}
    /\ mtk_bt_disable' \in {"null", "unmapped"}
    /\ "null" \in {mtk_bt_enable', mtk_bt_disable'}
    /\ UNCHANGED refs

\* Mutation: the library is opened once for each symbol.
LoadedTwice ==
    /\ mtklib_handle' = TRUE /\ resolved' = TRUE /\ refs' = refs + 2
    /\ mtk_bt_enable' = "mapped" /\ mtk_bt_disable' = "mapped"

\* Mutation: a symbol that was found before is not looked up again.
LoadedOnce ==
    /\ mtklib_handle' = TRUE /\ resolved' = TRUE /\ refs' = refs + 1
    /\ mtk_bt_enable' = IF mtk_bt_enable = "null" THEN "mapped"
                                                  ELSE mtk_bt_enable
    /\ mtk_bt_disable' = "mapped"

Loaded ==
    /\ mtklib_handle' = TRUE /\ resolved' = TRUE /\ refs' = refs + 1
    /\ mtk_bt_enable' = "mapped" /\ mtk_bt_disable' = "mapped"

\* Without callbacks nothing is done, and the stack does not go on.
mtk_init ==
    /\ stage = "off"
    /\ \/ /\ ret' = -1 /\ UNCHANGED <<lib, refs, stage>>
       \/ /\ ret' = 0 /\ stage' = "ready" /\ bt_vendor_cbacks' = TRUE
          /\ NoLibrary \/ NoSymbol \/ Loaded
    /\ fault' = "none"
    /\ UNCHANGED fds

\* Mutation: the library is not closed.
mtk_cleanup_open ==
    /\ stage \in {"ready", "down"} /\ stage' = "off"
    /\ bt_vendor_cbacks' = FALSE /\ fault' = "none"
    /\ UNCHANGED <<mtklib_handle, mtk_bt_enable, mtk_bt_disable, resolved, fds,
                   refs, ret>>

\* The handle is closed but not reset.
mtk_cleanup ==
    /\ stage \in {"ready", "down"} /\ stage' = "off"
    /\ bt_vendor_cbacks' = FALSE
    /\ \/ /\ mtklib_handle /\ refs > 0
          /\ refs' = refs - 1 /\ fault' = "none"
          /\ mtk_bt_enable' = Closed(mtk_bt_enable)
          /\ mtk_bt_disable' = Closed(mtk_bt_disable)
       \/ /\ ~(mtklib_handle /\ refs > 0)
          /\ fault' = IF mtklib_handle THEN "bad_dlclose" ELSE "none"
          /\ UNCHANGED <<refs, mtk_bt_enable, mtk_bt_disable>>
    /\ UNCHANGED <<mtklib_handle, resolved, fds, ret>>

-----------------------------------------------------------------------------
(* mtk_op. *)

\* A call through a pointer that does not point into the library ends the
\* process.
Crash(what) ==
    /\ stage' = "dead" /\ fault' = what
    /\ UNCHANGED <<lib, fds, refs, ret>>

\* BT_VND_OP_USERIAL_OPEN.  The stack goes on also when it fails.
mtk_open ==
    /\ stage = "ready"
    /\ \/ mtk_bt_enable # "mapped" /\ Crash("bad_enable")
       \/ /\ mtk_bt_enable = "mapped"
          /\ \/ \E fd \in Fds : ret' = 1 /\ open' = fd /\ hci_tty_fd' = fd
             \/ ret' = -1 /\ UNCHANGED <<hci_tty_fd, open>>
          /\ stage' = "up" /\ fault' = "none"
          /\ UNCHANGED <<lib, refs>>

\* BT_VND_OP_USERIAL_CLOSE.  hci_tty_fd is not reset.
mtk_close ==
    /\ stage = "up"
    /\ \/ /\ hci_tty_fd = -1 /\ ret' = -1 /\ stage' = "down"
          /\ fault' = "none" /\ UNCHANGED <<lib, fds, refs>>
       \/ /\ hci_tty_fd # -1 /\ mtk_bt_disable # "mapped"
          /\ Crash("bad_disable")
       \/ /\ hci_tty_fd # -1 /\ mtk_bt_disable = "mapped"
          /\ IF open = hci_tty_fd
             THEN open' = -1 /\ fault' = "none" /\ ret' = 0
             ELSE UNCHANGED open /\ fault' = "bad_fd" /\ ret' = -1
          /\ stage' = "down"
          /\ UNCHANGED <<lib, hci_tty_fd, refs>>

\* BT_VND_OP_FW_CFG and BT_VND_OP_EPILOG answer through the callbacks, which
\* are not there before mtk_init and after mtk_cleanup; the other operations
\* change nothing.
mtk_op ==
    /\ stage # "dead"
    /\ \/ ~bt_vendor_cbacks /\ Crash("null_callback")
       \/ ret' = 0 /\ fault' = "none" /\ UNCHANGED <<lib, fds, refs, stage>>

\* The system starts the process anew (external).
NewProcess ==
    /\ stage = "dead"
    /\ bt_vendor_cbacks' = FALSE /\ mtklib_handle' = FALSE
    /\ mtk_bt_enable' = "null" /\ mtk_bt_disable' = "null"
    /\ hci_tty_fd' = -1 /\ open' = -1 /\ refs' = 0 /\ stage' = "off"
    /\ ret' = 0 /\ resolved' = FALSE /\ fault' = "none"

Next == mtk_init \/ mtk_cleanup \/ mtk_open \/ mtk_close \/ mtk_op \/ NewProcess

Spec == Init /\ [][Next]_vars

-----------------------------------------------------------------------------
(* Properties. *)

\* A call into the library reaches it in every cycle of initialisation and
\* cleanup, though the pointers are never reset, unless the load of this
\* cycle has failed (which mtk_init does not tell).
CallsReachLibrary == fault \in {"bad_enable", "bad_disable"} => ~resolved

\* Between cleanup and the next initialisation the library is not held, and
\* it is closed once more than it was opened only after a missing symbol.
LibraryReleased == /\ stage = "off" => refs = 0
                   /\ fault = "bad_dlclose" => ~resolved
=============================================================================
