-------------------------------- MODULE Idbm --------------------------------
(***************************************************************************)
(* The record database of usr/idbm.c, usr/iface.c and libopeniscsiusr, and  *)
(* the iscsiadm commands that change it.  The records of one target: a node *)
(* record is a file, named by a portal and an iface (or by the portal alone *)
(* in the old style, when the portal group is unknown); a discovery record  *)
(* is a directory with a config file and the links to the nodes found       *)
(* through it; an iface record is a file.  Processes share nothing but the  *)
(* files and the lock file.                                                 *)
(*                                                                          *)
(* A command is a sequence of calls, prog[p]; a step takes the first call   *)
(* off it and puts the calls that one makes in its place.                   *)
(***************************************************************************)
EXTENDS Naturals, Sequences, FiniteSets
LOCAL INSTANCE SequencesExt

CONSTANTS Procs,       \* processes: iscsiadm, or another user of the library
          Portals,
          Ifaces,      \* names of iface records; "default" is not stored
          Sources,     \* SendTargets and iSNS servers
          Isns,        \* those of them that are iSNS servers
          HostIfaces,  \* ifaces that offload hosts get by themselves
          Commands,    \* what may be asked of a process
          Running,     \* nodes with a running session, as sysfs shows them
          Databases,   \* what earlier commands left: sets of <<key, source>>
          MaxCmds,     \* commands per process
          MaxCrash     \* processes that may die

None == "none"
Static == "static"     \* DISCOVERY_TYPE_STATIC
Fw == "fw"             \* DISCOVERY_TYPE_FW
IsnsOld == "isns_old"  \* links of iSNS nodes without a server directory
Old == "old"           \* no iface in the file name
Default == "default"
Boot == "boot"         \* the value every parameter has at first

Keys == Portals \X (Ifaces \cup {Default, Old})
OldKey(k) == <<k[1], Old>>
Values == Procs \cup {Boot, "onboot"}
NoRec == [st |-> "absent", disc |-> None, node |-> None, iface |-> None]
WholeRecs == [st : {"whole"}, disc : Sources \cup {Static, Fw},
              node : Values, iface : Values]
Recs == WholeRecs \cup {NoRec, [NoRec EXCEPT !.st = "torn"]}

VARIABLES
  lock,      \* LOCK_WRITE_FILE exists
  owner,     \* history: the process that made it
  node,      \* the node records
  disc,      \* sources that have a config file
  ddir,      \* sources that have a directory
  dlink,     \* links <<source, key>>
  iface,     \* iface records
  prog, refs, mem, ifv, rc,  \* of each process: calls to make, db->refs, the
                          \* record and the iface in memory, an error
  cmds,      \* commands a process may still run
  dead,      \* processes that died
  clean      \* history: nobody died holding the lock

files == <<node, disc, ddir, dlink, iface>>
locks == <<lock, owner, clean>>
procs == <<prog, refs, mem, ifv, rc, cmds, dead>>
vars == <<files, locks, procs>>

-----------------------------------------------------------------------------
(* Calls. *)

Call(i) == [i |-> i]
On(i, k) == [i |-> i, k |-> k]
Lock == Call("lock")
Unlock == Call("unlock")
Locked(s) == <<Lock>> \o s \o <<Unlock>>

At(p, i) == p \notin dead /\ prog[p] # <<>> /\ Head(prog[p]).i = i
Arg(p) == Head(prog[p])
\* The first call of p is replaced by the calls of s.
Goto(p, s) == prog' = [prog EXCEPT ![p] = s \o Tail(@)]
Done(p) == Goto(p, <<>>)
Return(p, e) == rc' = [rc EXCEPT ![p] = e]
InMemory(p, r) == mem' = [mem EXCEPT ![p] = r]

Present(k) == node[k].st # "absent"
\* The file that idbm_rec_read and idbm_delete_node find for k.
FileOf(k) == IF Present(OldKey(k)) THEN OldKey(k) ELSE k

\* idbm_remove_disc_to_node_link, then the record itself.
idbm_delete_node(k) ==
  <<Lock, On("read_link", k), Lock, On("unlink", k), Unlock>>

\* fresh: not what was read from the file before.
idbm_rec_write(k, fresh) ==
  <<[i |-> "convert", k |-> k, fresh |-> fresh],
    [i |-> "open", k |-> k, fresh |-> fresh], On("print", k)>>

\* Fields that are empty in src keep the value they have in dst.
iface_copy(dst, src) == IF src = None THEN dst ELSE src

\* v is the content of rec->iface.
idbm_add_node(k, s, overwrite, v) ==
  <<Lock, [i |-> "add", k |-> k, s |-> s, overwrite |-> overwrite, v |-> v]>>

\* fn.op is what is done with each record: "set", "delete", "stale" or "link";
\* or, with each portal, "bind".
idbm_for_each_rec_Unlocked(fn, ruw) ==
  <<[i |-> "portals", left |-> Portals, fn |-> fn, ruw |-> FALSE]>>
idbm_for_each_rec(fn, ruw) ==
  <<[i |-> "portals", left |-> Portals, fn |-> fn, ruw |-> ruw]>>

idbm_discovery_write(s) == Locked(<<On("disc_write", s)>>)
idbm_discovery_read(s) == Locked(<<On("disc_read", s)>>)
idbm_add_discovery(s) == idbm_discovery_read(s) \o idbm_discovery_write(s)
idbm_delete_discovery(s) == <<On("disc_unlink", s)>>

iface_conf_write(j, v) ==
  <<On("iface_open", j), Lock, Unlock, [i |-> "iface_close", k |-> j, v |-> v]>>
iface_conf_read(j) ==
  IF j \notin Ifaces THEN <<>>
  ELSE <<Lock, [i |-> "iface_read", k |-> j, retry |-> 0], Unlock>>
iface_conf_delete(j) == Locked(<<On("iface_unlink", j)>>)
iface_setup_host_bindings ==
  <<Lock, Unlock, [i |-> "bind", left |-> HostIfaces]>>
IfElse(s, e) == <<[i |-> "if_ok", s |-> s, e |-> e]>>
IfOk(s) == IfElse(s, <<>>)

add_static_rec(k) == iface_conf_read(k[2]) \o <<On("add_static", k)>>

-----------------------------------------------------------------------------
(* The lock: link() creates LOCK_WRITE_FILE if it is not there.  A process   *)
(* waits up to 30 seconds for it, which is longer than any command holds it, *)
(* so that only a lock whose maker died is waited for to the end.            *)

Stale_Never == FALSE
Stale == lock /\ owner \in dead

Acquire(p) ==
  /\ refs[p] > 0 \/ ~lock
  /\ refs' = [refs EXCEPT ![p] = @ + 1]
  /\ IF refs[p] > 0 THEN UNCHANGED <<lock, owner>> ELSE lock' = TRUE /\ owner' = p
  /\ UNCHANGED clean

\* After 3000 attempts idbm_lock goes on as if it held the lock.
idbm_lock(p) ==
  /\ At(p, "lock")
  /\ \/ Acquire(p)
     \/ /\ refs[p] = 0 /\ Stale
        /\ refs' = [refs EXCEPT ![p] = 1]
        /\ UNCHANGED locks
  /\ Done(p)
  /\ UNCHANGED <<files, mem, ifv, rc, cmds, dead>>

\* The library gives up instead.
_idbm_lock(p) ==
  /\ At(p, "lib_lock")
  /\ \/ Acquire(p) /\ Goto(p, Arg(p).s) /\ UNCHANGED rc
     \/ /\ refs[p] = 0 /\ Stale
        /\ Goto(p, Arg(p).e)
        /\ Return(p, "err")
        /\ UNCHANGED <<refs, locks>>
  /\ UNCHANGED <<files, mem, ifv, cmds, dead>>

idbm_unlock_Flat(p) ==
  /\ At(p, "unlock")
  /\ Done(p)
  /\ refs' = [refs EXCEPT ![p] = IF @ > 1 THEN @ - 1 ELSE 0]
  /\ lock' = FALSE /\ owner' = None
  /\ UNCHANGED <<clean, files, mem, ifv, rc, cmds, dead>>
idbm_unlock(p) ==
  /\ At(p, "unlock")
  /\ Done(p)
  /\ refs' = [refs EXCEPT ![p] = IF @ > 1 THEN @ - 1 ELSE 0]
  /\ IF refs[p] > 1 THEN UNCHANGED locks
     ELSE lock' = FALSE /\ owner' = None /\ UNCHANGED clean
  /\ UNCHANGED <<files, mem, ifv, rc, cmds, dead>>

-----------------------------------------------------------------------------
(* Node records.  Each step below is one call on the file system. *)

NodeStep(p, next) ==
  /\ Goto(p, next)
  /\ UNCHANGED <<refs, ifv, cmds, dead, locks, disc, ddir, iface>>

\* A torn file parses to a record without a name, which matches nothing.
Readable(k) == node[k].st = "whole"

\* The record is read to find the link; then the link is removed.
ReadLink(p) ==
  /\ At(p, "read_link")
  /\ LET k == Arg(p).k IN
     NodeStep(p, <<Unlock>> \o
       IF k[2] # Old /\ Readable(k)
       THEN Locked(<<[i |-> "rm_link", k |-> k, s |-> node[k].disc]>>) ELSE <<>>)
  /\ UNCHANGED <<node, dlink, mem, rc>>

\* stat() follows a link: it finds it if the directory of the portal exists.
PortalDir(k) == \E j \in Keys : j[1] = k[1] /\ j[2] # Old /\ Present(j)

setup_disc_to_node_link(s, k) ==
  IF s \in Isns /\ (s \notin ddir \/ (<<IsnsOld, k>> \in dlink /\ PortalDir(k)))
  THEN <<IsnsOld, k>> ELSE <<s, k>>

RmLink(p) ==
  /\ At(p, "rm_link")
  /\ LET a == Arg(p) IN
     dlink' = IF PortalDir(a.k) THEN dlink \ {setup_disc_to_node_link(a.s, a.k)}
              ELSE dlink
  /\ NodeStep(p, <<>>)
  /\ UNCHANGED <<node, mem, rc>>

Unlink(p) ==
  /\ At(p, "unlink")
  /\ LET k == FileOf(Arg(p).k) IN
     /\ node' = [node EXCEPT ![k] = NoRec]
     /\ Return(p, IF Present(k) THEN rc[p] ELSE "err")
  /\ NodeStep(p, <<>>)
  /\ UNCHANGED <<dlink, mem>>

\* idbm_rec_write: a file of the old style gives way to a directory.
Convert(p) ==
  /\ At(p, "convert")
  /\ LET k == Arg(p).k IN
     node' = IF k[2] = Old THEN node ELSE [node EXCEPT ![OldKey(k)] = NoRec]
  /\ NodeStep(p, <<>>)
  /\ UNCHANGED <<dlink, mem, rc>>

\* fopen(, "w") empties the file, fclose() writes what was printed.
Open(p) ==
  /\ At(p, "open")
  /\ node' = [node EXCEPT ![Arg(p).k] = [NoRec EXCEPT !.st = "torn"]]
  /\ NodeStep(p, <<>>)
  /\ UNCHANGED <<dlink, mem, rc>>

PrintRec(p) ==
  /\ At(p, "print")
  /\ node' = [node EXCEPT ![Arg(p).k] = mem[p]]
  /\ NodeStep(p, <<>>)
  /\ UNCHANGED <<dlink, mem, rc>>

\* A record found by firmware discovery once more starts at boot.
NewRec(a, again) ==
  [st |-> "whole", disc |-> a.s, iface |-> a.v,
   node |-> IF a.s = Fw /\ again THEN "onboot" ELSE Boot]

\* idbm_add_node, after its lock.  A torn record cannot be deleted: the record
\* read from it has no name.
Add(p) ==
  /\ At(p, "add")
  /\ LET a == Arg(p)
         f == FileOf(a.k)
         write == idbm_rec_write(a.k, TRUE) \o
                  (IF a.k[2] = Old THEN <<>>
                   ELSE <<[i |-> "symlink", k |-> a.k, s |-> a.s]>>)
     IN /\ InMemory(p, NewRec(a, Present(f)))
        /\ \/ /\ ~Present(f)
              /\ NodeStep(p, write \o <<Unlock>>)
              /\ Return(p, "ok")
           \/ /\ Present(f) /\ ~a.overwrite
              /\ NodeStep(p, <<Unlock>>)
              /\ Return(p, "ok")
           \/ /\ Readable(f) /\ a.overwrite
              /\ NodeStep(p, idbm_delete_node(f) \o IfOk(write) \o <<Unlock>>)
              /\ Return(p, "ok")
           \/ /\ node[f].st = "torn" /\ a.overwrite
              /\ NodeStep(p, <<Unlock>>)
              /\ Return(p, "err")
  /\ UNCHANGED <<node, dlink>>

\* The directory of a SendTargets server is made with its discovery record.
Symlink(p) ==
  /\ At(p, "symlink")
  /\ LET a == Arg(p) IN
     IF a.s \in Sources \ (Isns \cup ddir)
     THEN Return(p, "err") /\ UNCHANGED dlink
     ELSE /\ dlink' = dlink \cup {setup_disc_to_node_link(a.s, a.k)}
          /\ UNCHANGED rc
  /\ NodeStep(p, <<>>)
  /\ UNCHANGED <<node, mem>>

portal_fn(ruw, s) == IF ruw THEN Locked(s) ELSE s

add_static_portal(t, fn) == add_static_rec(<<t, fn.j>>)

\* idbm_for_each_node and idbm_for_each_portal: directories in any order; with
\* ruw the lock is held while the records of a portal are read and changed.
ForEachPortal(p) ==
  /\ At(p, "portals")
  /\ LET a == Arg(p)
         found == {t \in a.left : \E k \in Keys : k[1] = t /\ Present(k)}
     IN \/ found = {} /\ NodeStep(p, <<>>)
        \/ \E t \in found :
             /\ a.fn.op = "bind"
             /\ NodeStep(p, add_static_portal(t, a.fn) \o <<[a EXCEPT !.left = @ \ {t}]>>)
        \/ \E t \in found :
             /\ a.fn.op # "bind"
             /\ NodeStep(p, portal_fn(a.ruw, <<[i |-> "ifaces", fn |-> a.fn, ruw |-> a.ruw,
                                      left |-> {k \in Keys : k[1] = t}]>>)
                            \o <<[a EXCEPT !.left = @ \ {t}]>>)
  /\ UNCHANGED <<node, dlink, mem, rc>>

ForEachIface(p) ==
  /\ At(p, "ifaces")
  /\ LET a == Arg(p)
         read(k) == IF a.ruw THEN <<On("read", k)>> ELSE Locked(<<On("read", k)>>)
         found == {k \in a.left : Present(k)}
     IN \/ found = {} /\ NodeStep(p, <<>>)
        \/ \E k \in found :
             NodeStep(p, read(k) \o <<[i |-> "fn", k |-> k, fn |-> a.fn],
                                      [a EXCEPT !.left = @ \ {k}]>>)
  /\ UNCHANGED <<node, dlink, mem, rc>>

RecRead(p) ==
  /\ At(p, "read")
  /\ InMemory(p, IF Readable(Arg(p).k) THEN node[Arg(p).k] ELSE NoRec)
  /\ NodeStep(p, <<>>)
  /\ UNCHANGED <<node, dlink, rc>>

\* iscsiadm's delete_node refuses to remove the record of a running session.
delete_node(p, k) ==
  IF k \in Running THEN NodeStep(p, <<>>) /\ Return(p, "err")
  ELSE NodeStep(p, idbm_delete_node(k)) /\ UNCHANGED rc

\* A record of the same source that was not found again goes; without any
\* record to compare with, every record does.
delete_stale_rec(p, k, fn) ==
  IF fn.found = {} \/ (mem[p].disc = fn.s /\ k \notin fn.found)
  THEN delete_node(p, k) ELSE NodeStep(p, <<>>) /\ UNCHANGED rc

\* fn.valid: the parameter exists, may be modified and the value parses.
idbm_verify_param(fn) == fn.valid
idbm_rec_update_param(r, f, v) == [r EXCEPT ![f] = v]

Apply(p) ==
  /\ At(p, "fn")
  /\ LET k == Arg(p).k
         fn == Arg(p).fn
     IN \/ /\ mem[p] = NoRec \/ k \notin fn.pat \/ fn.op = "link"
           /\ NodeStep(p, <<>>)
           /\ UNCHANGED <<mem, rc>>
        \/ /\ mem[p] # NoRec /\ k \in fn.pat /\ fn.op = "set"
           /\ IF idbm_verify_param(fn)
              THEN /\ InMemory(p, idbm_rec_update_param(mem[p], fn.f, p))
                   /\ NodeStep(p, idbm_rec_write(k, FALSE))
                   /\ UNCHANGED rc
              ELSE NodeStep(p, <<>>) /\ Return(p, "err") /\ UNCHANGED mem
        \/ /\ mem[p] # NoRec /\ k \in fn.pat /\ fn.op = "delete"
           /\ delete_node(p, k)
           /\ UNCHANGED mem
        \/ /\ mem[p] # NoRec /\ k \in fn.pat /\ fn.op = "stale"
           /\ delete_stale_rec(p, k, fn)
           /\ UNCHANGED mem
  /\ UNCHANGED <<node, dlink>>

-----------------------------------------------------------------------------
(* Discovery records. *)

DiscStep(p, next) ==
  /\ Goto(p, next)
  /\ UNCHANGED <<refs, mem, ifv, cmds, dead, locks, node, dlink, iface>>

DiscRead(p) ==
  /\ At(p, "disc_read")
  /\ Return(p, IF Arg(p).k \in disc THEN "ok" ELSE "err")
  /\ DiscStep(p, <<>>)
  /\ UNCHANGED <<disc, ddir>>

DiscWrite(p) ==
  /\ At(p, "disc_write")
  /\ disc' = disc \cup {Arg(p).k} /\ ddir' = ddir \cup {Arg(p).k}
  /\ Return(p, "ok")
  /\ DiscStep(p, <<>>)

\* idbm_delete_discovery holds no lock; the nodes go one by one.
DiscUnlink(p) ==
  /\ At(p, "disc_unlink")
  /\ LET s == Arg(p).k IN
     /\ disc' = disc \ {s}
     /\ DiscStep(p, IF s \notin ddir THEN <<>>
                    ELSE <<[i |-> "disc_links", s |-> s,
                            left |-> {k \in Keys : <<s, k>> \in dlink}],
                           On("disc_rmdir", s)>>)
  /\ UNCHANGED <<ddir, rc>>

DiscLinks(p) ==
  /\ At(p, "disc_links")
  /\ LET a == Arg(p) IN
     \/ a.left = {} /\ DiscStep(p, <<>>)
     \/ \E k \in a.left :
          DiscStep(p, idbm_delete_node(k) \o <<[a EXCEPT !.left = @ \ {k}]>>)
  /\ UNCHANGED <<disc, ddir, rc>>

DiscRmdir(p) ==
  /\ At(p, "disc_rmdir")
  /\ LET s == Arg(p).k IN
     ddir' = IF s \in disc \/ (\E k \in Keys : <<s, k>> \in dlink)
             THEN ddir ELSE ddir \ {s}
  /\ DiscStep(p, <<>>)
  /\ UNCHANGED <<disc, rc>>

-----------------------------------------------------------------------------
(* Iface records. *)

IfaceStep(p, next) ==
  /\ Goto(p, next)
  /\ UNCHANGED <<refs, mem, cmds, dead, locks, node, disc, ddir, dlink>>

\* The file is emptied before the lock is taken and filled after it is dropped.
IfaceOpen(p) ==
  /\ At(p, "iface_open")
  /\ iface' = [iface EXCEPT ![Arg(p).k] = "torn"]
  /\ IfaceStep(p, <<>>)
  /\ UNCHANGED <<ifv, rc>>

IfaceClose(p) ==
  /\ At(p, "iface_close")
  /\ iface' = [iface EXCEPT ![Arg(p).k] = Arg(p).v]
  /\ IfaceStep(p, <<>>)
  /\ UNCHANGED <<ifv, rc>>

IfaceUnlink(p) ==
  /\ At(p, "iface_unlink")
  /\ iface' = [iface EXCEPT ![Arg(p).k] = None]
  /\ Return(p, IF iface[Arg(p).k] = None THEN "err" ELSE "ok")
  /\ IfaceStep(p, <<>>)
  /\ UNCHANGED ifv

\* A missing iface may be one that the hosts get by themselves: they are set
\* up and the file is looked for once more.
IfaceRead(p) ==
  /\ At(p, "iface_read")
  /\ LET a == Arg(p)
         v == iface[a.k]
     IN /\ ifv' = [ifv EXCEPT ![p] = IF v \in Values THEN v ELSE None]
        /\ Return(p, IF v = None THEN "err" ELSE "ok")
        /\ IfaceStep(p, IF v # None \/ a.retry = 1 THEN <<>>
                        ELSE <<Unlock>> \o iface_setup_host_bindings
                             \o <<Lock, [a EXCEPT !.retry = 1]>>)
  /\ UNCHANGED iface

Bind(p) ==
  /\ At(p, "bind")
  /\ LET a == Arg(p) IN
     \/ a.left = {} /\ IfaceStep(p, <<>>)
     \/ \E j \in a.left :
          IfaceStep(p, (IF iface[j] = None THEN iface_conf_write(j, Boot) ELSE <<>>)
                       \o <<[a EXCEPT !.left = @ \ {j}]>>)
  /\ UNCHANGED <<iface, ifv, rc>>

iscsi_default_iface_setup(p) ==
  /\ At(p, "lib_bind")
  /\ LET a == Arg(p)
         open(j) == IF iface[j] # None THEN <<>>
                    ELSE <<[i |-> "lib_lock", s |-> <<On("lib_open", j)>>, e |-> <<>>]>>
     IN \/ a.left = {} /\ IfaceStep(p, <<>>) /\ Return(p, "ok")
        \/ /\ \E j \in a.left : IfaceStep(p, open(j) \o <<[a EXCEPT !.left = @ \ {j}]>>)
           /\ UNCHANGED rc
  /\ UNCHANGED <<iface, ifv>>

\* _iface_conf_write of the library empties the file under the lock; when it
\* cannot be opened, the lock stays taken, as if the process had died.
LibIfaceOpen(p) ==
  /\ At(p, "lib_open")
  /\ LET j == Arg(p).k IN
     \/ /\ iface' = [iface EXCEPT ![j] = "torn"]
        /\ IfaceStep(p, <<Unlock, [i |-> "iface_close", k |-> j, v |-> Boot]>>)
        /\ UNCHANGED rc
     \/ /\ Cardinality(dead) < MaxCrash
        /\ prog' = [prog EXCEPT ![p] = <<>>]
        /\ dead' = dead \cup {p} /\ clean' = FALSE
        /\ Return(p, "err")
        /\ UNCHANGED <<refs, mem, cmds, lock, owner, node, disc, ddir, dlink, iface>>
  /\ UNCHANGED ifv

-----------------------------------------------------------------------------
(* Steps within a command. *)

Control(p, next) ==
  /\ Goto(p, next)
  /\ UNCHANGED <<refs, mem, ifv, cmds, dead, locks, files>>

IfOkStep(p) ==
  /\ At(p, "if_ok")
  /\ Control(p, IF rc[p] = "ok" THEN Arg(p).s ELSE Arg(p).e)
  /\ UNCHANGED rc

AddStatic(p) ==
  /\ At(p, "add_static")
  /\ Control(p, IF rc[p] = "ok" THEN idbm_add_node(Arg(p).k, Static, TRUE,
                                               iface_copy(Boot, ifv[p]))
                ELSE <<>>)
  /\ UNCHANGED rc

\* The library reads what is there, record by record.
_idbm_node_get(k) == IF Readable(k) THEN node[k] ELSE NoRec
_idbm_iface_get(j) == IF iface[j] \in Values THEN iface[j] ELSE None

iscsi_nodes_get(p) ==
  /\ At(p, "show")
  /\ LET there == {k \in Arg(p).left : Present(k)} IN
     \/ there = {} /\ Goto(p, <<>>) /\ UNCHANGED mem
     \/ \E k \in there : /\ InMemory(p, _idbm_node_get(k))
                         /\ Goto(p, <<[Arg(p) EXCEPT !.left = @ \ {k}]>>)
  /\ UNCHANGED <<refs, ifv, rc, cmds, dead, locks, files>>

iscsi_ifaces_get(p) ==
  /\ At(p, "show_ifaces")
  /\ LET there == {j \in Arg(p).left : iface[j] # None} IN
     \/ there = {} /\ Goto(p, <<>>) /\ UNCHANGED ifv
     \/ \E j \in there : /\ ifv' = [ifv EXCEPT ![p] = _idbm_iface_get(j)]
                         /\ Goto(p, <<[Arg(p) EXCEPT !.left = @ \ {j}]>>)
  /\ UNCHANGED <<refs, mem, rc, cmds, dead, locks, files>>

\* recs: the portals found, on the ifaces they are bound to.
exec_disc_op_on_recs(c, recs) ==
  LET add(r) == idbm_add_node(r.k, c.s, c.update, r.v)
      rs == SetToSeq(recs)
  IN (IF ~c.delete THEN <<>>
      ELSE idbm_for_each_rec([op |-> "stale", pat |-> Keys, s |-> c.s,
                              found |-> {r.k : r \in recs}], FALSE))
     \o (IF c.new \/ c.update THEN FlattenSeq([n \in DOMAIN rs |-> add(rs[n])]) ELSE <<>>)

\* do_target_discovery and exec_fw_disc_op, after the ifaces that were asked
\* for have been read.
Discover(p) ==
  /\ At(p, "discover")
  /\ LET c == Arg(p).c
         given == c.j \in Ifaces /\ rc[p] = "ok"
     IN IF c.j \in Ifaces /\ rc[p] = "err" /\ c.s # Fw THEN Control(p, <<>>)
        ELSE Control(p, (IF c.sync THEN idbm_add_discovery(c.s) ELSE <<>>)
               \o <<[i |-> "bind_ifaces", c |-> c, given |-> given, reading |-> None,
                     left |-> IF given THEN {} ELSE Ifaces \ HostIfaces,
                     got |-> IF given /\ ifv[p] # None THEN {<<c.j, ifv[p]>>} ELSE {}]>>)
  /\ UNCHANGED rc

\* Without -I the software ifaces of the directory are used; one without a
\* transport name is not.
iface_for_each_iface(p) ==
  /\ At(p, "bind_ifaces")
  /\ LET a == Arg(p) IN
     \/ /\ a.reading = None
        /\ \E j \in {j \in a.left : iface[j] # None} :
             Control(p, <<Lock, [a EXCEPT !.left = @ \ {j}, !.reading = j]>>)
     \/ /\ a.reading # None
        /\ Control(p, <<Unlock, [a EXCEPT !.reading = None,
                                  !.got = @ \cup {g \in {<<a.reading, iface[a.reading]>>} :
                                                     g[2] \in Values}]>>)
  /\ UNCHANGED rc

\* Then the records are bound to them, or to the default iface.
idbm_bind_ifaces_to_nodes(p) ==
  /\ At(p, "bind_ifaces")
  /\ LET a == Arg(p)
         got == IF a.given \/ a.got # {} THEN a.got ELSE {<<Default, Boot>>}
         recs == {[k |-> <<t, g[1]>>, v |-> g[2]] : t \in a.c.found, g \in got}
     IN /\ a.reading = None /\ \A j \in a.left : iface[j] = None
        /\ IF recs = {} /\ a.c.s # Fw
           THEN Control(p, <<>>) /\ Return(p, "err")
           ELSE Control(p, exec_disc_op_on_recs(a.c, recs)) /\ UNCHANGED rc

-----------------------------------------------------------------------------
(* Commands: the records of Commands have a mode, an operation and what it is *)
(* applied to.                                                                *)

OnIface(j) == {k \in Keys : k[2] = j}
exec_discover(c) == iface_conf_read(c.j) \o <<[i |-> "discover", c |-> c]>>
exec_disc_op(c) == exec_discover(c)

\* The iface record, then every node record bound to it.
iface_param_update(j, p) ==
  iface_conf_read(j) \o
  IfOk(iface_conf_write(j, p) \o
       idbm_for_each_rec([op |-> "set", pat |-> OnIface(j), f |-> "iface",
                          valid |-> TRUE], TRUE))

Shown(i, S) == <<[i |-> "lib_lock", s |-> <<[i |-> i, left |-> S], Unlock>>, e |-> <<Unlock>>]>>

exec_node_op(c) ==
  CASE c.op = "new" -> add_static_rec(c.k)
    [] c.op = "bind" -> <<[i |-> "portals", left |-> Portals, ruw |-> FALSE,
                           fn |-> [op |-> "bind", j |-> c.j]]>>
    [] c.op = "update" -> idbm_for_each_rec([op |-> "set", pat |-> c.pat, f |-> "node",
                                             valid |-> c.valid], TRUE)
    [] c.op = "delete" -> idbm_for_each_rec([op |-> "delete", pat |-> c.pat], TRUE)
    [] c.op = "login" -> idbm_for_each_rec([op |-> "link", pat |-> c.pat], c.ruw)
    [] c.op = "show" -> Shown("show", Keys)

exec_disc2_op(c) ==
  CASE c.op = "new" -> idbm_add_discovery(c.s)
    [] c.op = "update" -> idbm_discovery_read(c.s) \o IfOk(idbm_discovery_write(c.s))
    [] c.op = "delete" -> idbm_discovery_read(c.s) \o IfOk(idbm_delete_discovery(c.s))
    [] c.op = "discover" -> idbm_discovery_read(c.s)
                            \o IfElse(<<>>, idbm_add_discovery(c.s)) \o exec_discover(c)

\* iscsi_default_iface_setup comes first in iface mode; its result is ignored.
default_iface_setup ==
  <<[i |-> "lib_lock", s |-> <<Unlock, [i |-> "lib_bind", left |-> HostIfaces]>>, e |-> <<>>]>>

exec_iface_op(c, p) ==
  CASE c.op = "new" ->
         iface_conf_read(c.j) \o
         IfElse(IF OnIface(c.j) \cap Running # {} THEN <<>> ELSE iface_conf_write(c.j, Boot),
                iface_conf_write(c.j, Boot))
    [] c.op = "update" ->
         iface_conf_read(c.j) \o IfOk(iface_param_update(c.j, p))
    [] c.op = "delete" ->
         iface_conf_read(c.j) \o
         IfOk(idbm_for_each_rec([op |-> "delete", pat |-> OnIface(c.j)], TRUE)
              \o IfOk(iface_conf_delete(c.j)))
    [] c.op = "show" -> Shown("show_ifaces", Ifaces)

Start(p) ==
  /\ p \notin dead /\ prog[p] = <<>> /\ cmds[p] > 0
  /\ \E c \in Commands :
       prog' = [prog EXCEPT ![p] =
         CASE c.mode = "node" -> exec_node_op(c)
           [] c.mode = "discoverydb" -> exec_disc2_op(c)
           [] c.mode = "discovery" -> exec_disc_op(c)
           [] c.mode = "iface" -> default_iface_setup \o exec_iface_op(c, p)]
  /\ Return(p, "ok")
  /\ InMemory(p, NoRec)
  /\ ifv' = [ifv EXCEPT ![p] = Boot]
  /\ cmds' = [cmds EXCEPT ![p] = @ - 1]
  /\ UNCHANGED <<refs, dead, locks, files>>

\* A process is killed; a file it had opened stays empty.
Crash(p) ==
  /\ p \notin dead /\ prog[p] # <<>> /\ Cardinality(dead) < MaxCrash
  /\ dead' = dead \cup {p}
  /\ prog' = [prog EXCEPT ![p] = <<>>]
  /\ clean' = (clean /\ refs[p] = 0)
  /\ UNCHANGED <<refs, mem, ifv, rc, cmds, lock, owner, files>>

-----------------------------------------------------------------------------
Init ==
  /\ lock = FALSE /\ owner = None /\ clean = TRUE
  /\ \E db \in Databases :
       LET found == {x \in db : x[1][2] # Old} IN
       /\ node = [k \in Keys |-> IF \E s \in Sources \cup {Static, Fw} : <<k, s>> \in db
                                THEN [st |-> "whole", node |-> Boot, iface |-> Boot,
                                      disc |-> CHOOSE s \in Sources \cup {Static, Fw} : <<k, s>> \in db]
                                ELSE NoRec]
       /\ disc = {x[2] : x \in db} \cap Sources /\ ddir = disc
       /\ dlink = {<<x[2], x[1]>> : x \in found}
  /\ iface = [j \in Ifaces |-> IF j \in HostIfaces THEN None ELSE Boot]
  /\ prog = [p \in Procs |-> <<>>]
  /\ refs = [p \in Procs |-> 0]
  /\ mem = [p \in Procs |-> NoRec]
  /\ ifv = [p \in Procs |-> Boot]
  /\ rc = [p \in Procs |-> "ok"]
  /\ cmds = [p \in Procs |-> MaxCmds]
  /\ dead = {}

LockStep(p) == idbm_lock(p) \/ _idbm_lock(p) \/ idbm_unlock(p)
NodeRec(p) == \/ ReadLink(p) \/ RmLink(p) \/ Unlink(p) \/ Convert(p) \/ Open(p)
              \/ PrintRec(p) \/ Add(p) \/ Symlink(p) \/ ForEachPortal(p)
              \/ ForEachIface(p) \/ RecRead(p) \/ Apply(p)
DiscRec(p) == \/ DiscRead(p) \/ DiscWrite(p) \/ DiscUnlink(p) \/ DiscLinks(p) \/ DiscRmdir(p)
IfaceRec(p) == \/ IfaceOpen(p) \/ IfaceClose(p) \/ IfaceUnlink(p) \/ IfaceRead(p)
               \/ Bind(p) \/ iscsi_default_iface_setup(p) \/ LibIfaceOpen(p)
Within(p) == \/ IfOkStep(p) \/ AddStatic(p) \/ iscsi_nodes_get(p) \/ iscsi_ifaces_get(p)
             \/ Discover(p) \/ iface_for_each_iface(p) \/ idbm_bind_ifaces_to_nodes(p)
Step(p) == LockStep(p) \/ NodeRec(p) \/ DiscRec(p) \/ IfaceRec(p) \/ Within(p)

Next == \E p \in Procs : Start(p) \/ Step(p) \/ Crash(p)

Spec == Init /\ [][Next]_vars
\* Every process is scheduled: when it can go on, it does (each of its steps
\* changes prog[p]).
CanStep(p) == /\ p \notin dead /\ prog[p] # <<>>
              /\ Arg(p).i \in {"lock", "lib_lock"} => refs[p] > 0 \/ ~lock \/ Stale
Fairness == \A p \in Procs : <>[]CanStep(p) => []<><<prog'[p] # prog[p]>>_prog
FairSpec == Spec /\ Fairness

-----------------------------------------------------------------------------
(* Properties. *)

\* Every variable has its type (usr/idbm.c, usr/iface.c).
TypeOK ==
  /\ lock \in BOOLEAN /\ owner \in Procs \cup {None} /\ clean \in BOOLEAN
  /\ node \in [Keys -> Recs] /\ mem \in [Procs -> Recs]
  /\ disc \subseteq Sources /\ ddir \subseteq Sources
  /\ dlink \subseteq (Sources \cup {Static, Fw, IsnsOld}) \X Keys
  /\ iface \in [Ifaces -> Values \cup {None, "torn"}]
  /\ ifv \in [Procs -> Values \cup {None}]
  /\ refs \in [Procs -> 0..4] /\ rc \in [Procs -> {"ok", "err"}]
  /\ cmds \in [Procs -> 0..MaxCmds] /\ dead \subseteq Procs

\* As long as nobody dies with the lock, who believes to hold it (db->refs) is
\* the one who made the lock file: nested locks, the unlocked halves of
\* idbm_delete_node and the library's exits never drop somebody else's lock.  And
\* a node record is incomplete only while the process that writes it holds the
\* lock, so a reader that took the lock never parses half a record.
LockGuards ==
  /\ TypeOK
  /\ clean => /\ \A p \in Procs : refs[p] > 0 => lock /\ owner = p
              /\ \A k \in Keys : node[k].st = "torn" =>
                   \E p \in Procs : refs[p] > 0 /\ At(p, "print") /\ Arg(p).k = k

\* A record that is about to be replaced counts as removed, one that is being
\* written as written.
StoreOf(k) ==
  IF \E p \in Procs : At(p, "print") /\ Arg(p).k = k
  THEN mem[CHOOSE p \in Procs : At(p, "print") /\ Arg(p).k = k]
  ELSE IF \E p \in Procs : \/ At(p, "convert") /\ Arg(p).k = k /\ Arg(p).fresh
                           \/ At(p, "open") /\ Arg(p).k = k /\ Arg(p).fresh
       THEN NoRec ELSE node[k]
Store == INSTANCE RecordStore WITH store <- [k \in Keys |-> StoreOf(k)], trusted <- clean

\* The database implements RecordStore: two commands that update different
\* parameters of a record at once never undo each other.
ImplementsStore == Store!Spec

\* Every command ends, also when the holder of the lock has died: idbm_lock
\* gives up waiting, nested locks do not deadlock and the loops over the
\* directories end.
EveryCommandEnds == \A p \in Procs : prog[p] # <<>> ~> prog[p] = <<>>

=============================================================================
