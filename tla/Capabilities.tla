---------------------------- MODULE Capabilities ----------------------------
(***************************************************************************)
(* Programs that arrange the identity and the capabilities another program *)
(* runs with: userns_child_exec.c (with userns_functions.c) and            *)
(* cred_launcher.c of tlpi-dist/namespaces; cap_launcher.c, cap_functions.c*)
(* and check_password_caps.c of tlpi-dist/cap.  The kernel's rules are     *)
(* modelled from how the programs use them.                                *)
(***************************************************************************)
EXTENDS Integers, Sequences, FiniteSets

CONSTANTS
  Caps,        \* capabilities; SETPCAP, SETUID (with SETGID) and others
  OptionLists, \* repeatable options of userns_child_exec
  CapLists,    \* lists given to cap_launcher
  MAX_OPT      \* the most repeatable options

VARIABLES
  kind,     \* the program
  opt,      \* its command line and what it starts with
  proc,     \* the process that executes the command: where it is, its
            \* capability sets p e i b a, ids, securebits
  parent,   \* userns_child_exec's parent
  ns        \* the child's user namespace: maps written, setgroups, pipe

vars == <<kind, opt, proc, parent, ns>>

Mine(n, p) == kind = n /\ p /\ UNCHANGED <<kind, opt>>
At(l) == proc.pc = l
Fails == proc' = [proc EXCEPT !.pc = "failed"]

-----------------------------------------------------------------------------
(* The kernel.                                                             *)

CapSetAllowed(q, p, e, i) ==
  /\ p \subseteq q.p /\ e \subseteq p /\ i \subseteq q.i \cup q.b
  /\ "SETPCAP" \in q.e \/ i \subseteq q.i \cup q.p
CapSet(q, p, e, i) == [q EXCEPT !.p = p, !.e = e, !.i = i, !.a = @ \cap p \cap i]
AmbientAllowed(q, c) == c \in q.p \cap q.i /\ "a" \notin q.bits
UidAllowed(q, u) == "SETUID" \in q.e \/ u = q.uid
\* Root's capabilities are lost with its user ID, unless securebits say no.
SetUid(q, u) ==
  LET leaves == q.uid = 0 /\ u # 0 /\ "s" \notin q.bits
      keeps == "k" \in q.bits
  IN [q EXCEPT !.uid = u, !.e = IF leaves THEN {} ELSE @,
               !.p = IF leaves /\ ~keeps THEN {} ELSE @, !.a = IF leaves THEN {} ELSE @]
Execve(q) ==
  LET root == q.uid = 0 /\ "r" \notin q.bits
      new == IF root THEN q.i \cup q.b \cup q.a ELSE q.a
  IN [q EXCEPT !.pc = "exec", !.p = new, !.e = new]

-----------------------------------------------------------------------------
(* cap_functions.c: one capability in one set.                             *)

modifyCapSetting(q, set, c, on) ==
  LET new(s) == IF s # set THEN q[s] ELSE IF on THEN q[s] \cup {c} ELSE q[s] \ {c}
  IN IF CapSetAllowed(q, new("p"), new("e"), new("i"))
     THEN CapSet(q, new("p"), new("e"), new("i"))
     ELSE [q EXCEPT !.pc = "failed"]

\* Ambient only once the capability is inheritable.
raiseCap(q, c, ambient) ==
  LET r == modifyCapSetting(q, "i", c, TRUE)
  IN IF r.pc = "failed" \/ ~ambient THEN r
     ELSE IF AmbientAllowed(r, c) THEN [r EXCEPT !.a = @ \cup {c}]
     ELSE [r EXCEPT !.pc = "failed"]

-----------------------------------------------------------------------------
(* userns_child_exec.                                                      *)

\* Every capability, errors ignored; each is a call of modifyCapSetting() and
\* of prctl().
RaiseInheritableAndAmbientCaps(q, ambient) ==
  LET i == q.i \cup {c \in Caps : c \in q.b /\ (c \in q.p \/ "SETPCAP" \in q.e)}
  IN [q EXCEPT !.i = i, !.a = IF ambient THEN @ \cup {c \in Caps : AmbientAllowed([q EXCEPT !.i = i], c)} ELSE @]

\* -X <sets><op><cap>, one letter at a time.
modify_individual_capability(q, x) ==
  CASE x.set \in {"p", "e", "i"} -> modifyCapSetting(q, x.set, x.cap, x.on)
    [] x.set = "b" -> IF x.on \/ "SETPCAP" \notin q.e THEN [q EXCEPT !.pc = "failed"] ELSE [q EXCEPT !.b = @ \ {x.cap}]
    [] x.set = "a" -> IF ~x.on THEN [q EXCEPT !.a = @ \ {x.cap}]
                      ELSE IF AmbientAllowed(q, x.cap) THEN [q EXCEPT !.a = @ \cup {x.cap}] ELSE [q EXCEPT !.pc = "failed"]

set_securebits(q, bits) == IF "SETPCAP" \in q.e THEN [q EXCEPT !.bits = bits] ELSE [q EXCEPT !.pc = "failed"]

\* -x <caps>: the three sets at once; text that cap_from_text() does not
\* understand ends the child as a cap_set_proc() that fails does.
cap_set_proc(q, o) == IF CapSetAllowed(q, o.p, o.e, o.i) THEN CapSet(q, o.p, o.e, o.i) ELSE [q EXCEPT !.pc = "failed"]

\* The maps asked for; -r is both of users and groups, its user ID 0.
Maps == {"uid_map", "gid_map", "projid_map"}
Wanted == opt.maps \cup (IF opt.root THEN {"uid_map", "gid_map"} ELSE {})
MapsTo == IF opt.root THEN 0 ELSE opt.to
\* User IDs the child can name; without privilege one is mapped.
Mapped(u) == ~opt.user \/ (ns.uid_map /\ (u = MapsTo \/ (opt.priv /\ ~opt.root)))

\* What a repeatable option makes of process q; -d displays and -w sleeps.
Perform(q, o) ==
  CASE o.opt = "A" -> RaiseInheritableAndAmbientCaps(q, TRUE)
    [] o.opt = "I" -> RaiseInheritableAndAmbientCaps(q, FALSE)
    [] o.opt = "b" -> set_securebits(q, o.bits)
    [] o.opt = "s" -> IF UidAllowed(q, o.uid) /\ Mapped(o.uid) THEN SetUid(q, o.uid) ELSE [q EXCEPT !.pc = "failed"]
    [] o.opt = "X" -> modify_individual_capability(q, o)
    [] o.opt = "x" -> cap_set_proc(q, o)
    [] o.opt \in {"d", "w"} -> q

\* -M, -G, -P or -r need -U, -r excludes -M and -G; -S is in getopt()'s string
\* and in no case.
parse_command_options == Mine("userns",
  /\ parent = "parse" /\ UNCHANGED <<proc, ns>>
  /\ parent' = IF \/ Wanted # {} /\ ~opt.user
                  \/ opt.root /\ opt.maps \cap {"uid_map", "gid_map"} # {}
                  \/ Len(opt.list) > MAX_OPT \/ \E j \in DOMAIN opt.list : opt.list[j].opt = "S"
               THEN "failed" ELSE "clone")

\* Where update_child_maps() goes: each map by itself, if it is asked for.
AfterGid == IF "projid_map" \in Wanted THEN "projid_map" ELSE "close"
AfterUid == IF "gid_map" \notin Wanted THEN AfterGid ELSE IF opt.deny THEN "setgroups" ELSE "gid_map"
FirstMap == IF "uid_map" \in Wanted THEN "uid_map" ELSE AfterUid

\* clone(): the child has all capabilities in its new user namespace, and no
\* mapped user ID; both have the pipe's write end.
Clone == Mine("userns",
  /\ parent = "clone"
  /\ \/ /\ parent' = FirstMap
        /\ ns' = [ns EXCEPT !.writers = {"parent", "child"}]
        /\ proc' = [proc EXCEPT !.pc = "close", !.p = IF opt.user THEN Caps ELSE @, !.e = IF opt.user THEN Caps ELSE @,
                                !.b = IF opt.user THEN Caps ELSE @, !.uid = IF opt.user THEN 65534 ELSE @]
     \/ parent' = "failed" /\ UNCHANGED <<proc, ns>>)

\* update_map(), proc_setgroups_write(): any of them may fail; the parent
\* exits then, and its end of the pipe is closed.
update_map(at, next, file) == Mine("userns",
  /\ parent = at /\ UNCHANGED proc
  /\ \/ /\ at = "gid_map" => ns.denied \/ opt.priv
        /\ parent' = next /\ ns' = [ns EXCEPT ![file] = TRUE]
     \/ parent' = "failed" /\ ns' = [ns EXCEPT !.writers = @ \ {"parent"}])
proc_setgroups_write == update_map("setgroups", "gid_map", "denied")
update_child_maps ==
  \/ update_map("uid_map", AfterUid, "uid_map")
  \/ proc_setgroups_write
  \/ update_map("gid_map", AfterGid, "gid_map")
  \/ update_map("projid_map", "close", "projid_map")

CloseAndWait == Mine("userns",
  /\ UNCHANGED proc
  /\ \/ parent = "close" /\ parent' = "waitpid" /\ ns' = [ns EXCEPT !.writers = @ \ {"parent"}]
     \/ parent = "waitpid" /\ proc.pc \in {"exec", "failed"} /\ parent' = "exit" /\ UNCHANGED ns)

\* The child: its user ID is the map's from the moment uid_map is written.
ChildCloses == Mine("userns",
  At("close") /\ proc' = [proc EXCEPT !.pc = "read"] /\ ns' = [ns EXCEPT !.writers = @ \ {"child"}] /\ UNCHANGED parent)
ChildReads == Mine("userns",
  /\ At("read") /\ ns.writers = {} /\ UNCHANGED <<parent, ns>>
  /\ proc' = [proc EXCEPT !.pc = "options", !.uid = IF ns.uid_map THEN MapsTo ELSE @])
perform_repeatable_options == Mine("userns",
  /\ At("options") /\ UNCHANGED <<parent, ns>>
  /\ proc' = IF proc.n = Len(opt.list) THEN Execve(proc)
             ELSE [Perform(proc, opt.list[proc.n + 1]) EXCEPT !.n = @ + 1])
childFunc == ChildCloses \/ ChildReads \/ perform_repeatable_options

-----------------------------------------------------------------------------
(* cap_launcher and cred_launcher.                                         *)

SetSecurebits == Mine("launcher",
  /\ At("start") /\ UNCHANGED <<parent, ns>>
  /\ proc' = [set_securebits(proc, {"s"}) EXCEPT !.pc = IF @ = "failed" THEN @ ELSE "groups"])

\* A slip: the supplementary groups stay root's.
setCredentialsKeepGroups == Mine("launcher",
  /\ UNCHANGED <<parent, ns>>
  /\ \/ At("groups") /\ proc' = [proc EXCEPT !.pc = "gid"]
     \/ /\ At("gid")
        /\ IF "SETUID" \notin proc.e THEN Fails ELSE proc' = [proc EXCEPT !.gid = opt.user, !.pc = "uid"]
     \/ /\ At("uid")
        /\ IF ~UidAllowed(proc, opt.user) THEN Fails ELSE proc' = [SetUid(proc, opt.user) EXCEPT !.pc = "raise"])

\* Groups first, while there is the right to set them; then the user ID.
setCredentials == Mine("launcher",
  /\ UNCHANGED <<parent, ns>>
  /\ \/ /\ At("groups")
        /\ IF "SETUID" \notin proc.e THEN Fails ELSE proc' = [proc EXCEPT !.groups = opt.user, !.pc = "gid"]
     \/ /\ At("gid")
        /\ IF "SETUID" \notin proc.e THEN Fails ELSE proc' = [proc EXCEPT !.gid = opt.user, !.pc = "uid"]
     \/ /\ At("uid")
        /\ IF ~UidAllowed(proc, opt.user) THEN Fails ELSE proc' = [SetUid(proc, opt.user) EXCEPT !.pc = "raise"])

RaiseCaps == Mine("launcher",
  /\ At("raise") /\ UNCHANGED <<parent, ns>>
  /\ proc' = IF proc.n = Len(opt.list) THEN Execve(proc)
             ELSE [raiseCap(proc, opt.list[proc.n + 1], opt.ambient) EXCEPT !.n = @ + 1])
cap_launcher == SetSecurebits \/ setCredentials \/ RaiseCaps

\* setgroups(), setresgid() and setresuid() in that order, each if asked for.
cred_launcher == Mine("cred",
  /\ UNCHANGED <<parent, ns>>
  /\ \/ At("start") /\ opt.groups /\ (IF "SETUID" \in proc.e THEN proc' = [proc EXCEPT !.groups = opt.user, !.pc = "gid"] ELSE Fails)
     \/ At("start") /\ ~opt.groups /\ proc' = [proc EXCEPT !.pc = "gid"]
     \/ At("gid") /\ (IF "SETUID" \in proc.e THEN proc' = [proc EXCEPT !.gid = opt.user, !.pc = "uid"] ELSE Fails)
     \/ At("uid") /\ (IF UidAllowed(proc, opt.user) THEN proc' = Execve(SetUid(proc, opt.user)) ELSE Fails))

-----------------------------------------------------------------------------
(* check_password_caps.                                                    *)

dropAllCaps(q) == CapSet(q, {}, {}, {})
check_password_caps == Mine("password",
  /\ UNCHANGED <<parent, ns>>
  /\ \/ /\ At("start") /\ proc' = [modifyCapSetting(proc, "e", "DAC", TRUE) EXCEPT !.pc = IF @ = "failed" THEN @ ELSE "getspnam"]
     \/ At("start") /\ Fails
     \/ /\ At("getspnam")
        /\ IF "DAC" \in proc.e THEN proc' = [proc EXCEPT !.pc = "drop"] ELSE Fails
     \/ At("drop") /\ proc' = [dropAllCaps(proc) EXCEPT !.pc = "getpass"]
     \/ At("getpass") /\ \E r \in {"exec", "failed"} : proc' = [proc EXCEPT !.pc = r])

-----------------------------------------------------------------------------
\* root is -r, maps -M, -G and -P, to the user ID in -M's map, deny the
\* absence of -D; priv: the program has capabilities of its own.
UsernsOptions ==
  [user : BOOLEAN, root : BOOLEAN, maps : SUBSET Maps, to : {0, 1000}, deny : BOOLEAN, priv : BOOLEAN, list : OptionLists]
Fresh(p, u, pc) ==
  [pc |-> pc, p |-> p, e |-> IF u = 0 THEN p ELSE {}, i |-> {}, b |-> Caps, a |-> {}, uid |-> u, gid |-> u, groups |-> u, bits |-> {}, n |-> 0]

Init ==
  /\ ns = [uid_map |-> FALSE, gid_map |-> FALSE, projid_map |-> FALSE, denied |-> FALSE, writers |-> {}]
  /\ \/ /\ kind = "userns" /\ parent = "parse"
        /\ opt \in UsernsOptions /\ ("uid_map" \notin opt.maps => opt.to = 0)
        /\ proc = Fresh({}, 1000, "none")
     \/ /\ kind = "launcher" /\ parent = "none"
        /\ opt \in [user : {0, 1000}, list : CapLists, ambient : BOOLEAN]
        /\ \E p \in SUBSET Caps : proc = Fresh(p, 0, "start")
     \/ /\ kind = "cred" /\ parent = "none" /\ opt \in [user : {1000}, groups : BOOLEAN]
        /\ \E p \in {{}, Caps}, u \in {0, 1000} : proc = Fresh(p, u, "start")
     \/ /\ kind = "password" /\ parent = "none" /\ opt = [user |-> 1000]
        /\ \E p \in {{}, {"DAC"}, Caps} : proc = Fresh(p, 1000, "start")

Next ==
  \/ parse_command_options \/ Clone \/ update_child_maps \/ CloseAndWait \/ childFunc
  \/ cap_launcher \/ cred_launcher \/ check_password_caps

Spec == Init /\ [][Next]_vars

-----------------------------------------------------------------------------
InList(l) == {l[j] : j \in DOMAIN l}

\* The command that cap_launcher executes has the user's identity, all three
\* parts of it, and exactly the capabilities of the list, as an ordinary user;
\* cred_launcher's has the identity.  check_password_caps has no capability in
\* any set when it asks for the password.
LaunchedAsAsked ==
  /\ kind = "launcher" /\ At("exec") =>
       /\ proc.uid = opt.user /\ proc.gid = opt.user /\ proc.groups = opt.user
       /\ InList(opt.list) \subseteq proc.i
       /\ proc.uid # 0 => proc.p = (IF opt.ambient THEN InList(opt.list) ELSE {}) /\ proc.e = proc.p
  /\ kind = "cred" /\ At("exec") => proc.uid = 1000 /\ proc.gid = 1000 /\ (opt.groups => proc.groups = 1000)
  /\ kind = "password" /\ proc.pc \in {"getpass", "exec"} => proc.p = {} /\ proc.e = {} /\ proc.i = {}

\* Only maps that were asked for are written, in order, and the group map
\* after setgroups() was denied unless -D was given.
InOrder ==
  /\ \A f \in Maps : ns[f] => f \in Wanted
  /\ ns.denied => "gid_map" \in Wanted /\ opt.deny
  /\ (ns.denied \/ ns.gid_map \/ ns.projid_map) /\ "uid_map" \in Wanted => ns.uid_map
  /\ ns.gid_map /\ opt.deny => ns.denied
  /\ ns.projid_map /\ "gid_map" \in Wanted => ns.gid_map

\* The child of userns_child_exec goes on only when the parent writes no map
\* any more: when it has written every map asked for, or has failed, and then
\* the child executes its command with the maps written before.  With no
\* repeatable option the command has all capabilities exactly when a map of
\* its user ID to 0 was written, and else none.  After -A every permitted
\* capability of the bounding set is ambient, unless securebits forbid it.
MapsThenCommand ==
  kind = "userns" =>
    /\ InOrder
    /\ proc.pc \in {"options", "exec", "failed"} =>
         /\ parent \in {"waitpid", "exit", "failed"}
         /\ parent # "failed" => (\A f \in Wanted : ns[f]) /\ ("gid_map" \in Wanted /\ opt.deny => ns.denied)
    /\ At("exec") /\ opt.list = <<>> => proc.e = IF ns.uid_map /\ MapsTo = 0 THEN Caps ELSE {}
    /\ At("options") /\ proc.n > 0 /\ opt.list[proc.n].opt = "A" /\ "a" \notin proc.bits => proc.p \cap proc.b \subseteq proc.a

-----------------------------------------------------------------------------
(* The inductive invariant.                                                *)

Bits == {"a", "s", "k", "r"}
Options ==
  [opt : {"A", "I", "S", "d", "w"}] \cup [opt : {"x"}, p : SUBSET Caps, e : SUBSET Caps, i : SUBSET Caps] \cup [opt : {"b"}, bits : SUBSET Bits] \cup [opt : {"s"}, uid : Nat]
  \cup [opt : {"X"}, set : {"p", "e", "i", "b", "a"}, cap : Caps, on : BOOLEAN]
Labels == {"none", "start", "close", "read", "options", "groups", "gid", "uid", "raise", "getspnam", "drop", "getpass", "exec", "failed"}
Processes ==
  [pc : Labels, p : SUBSET Caps, e : SUBSET Caps, i : SUBSET Caps, b : SUBSET Caps, a : SUBSET Caps,
   uid : Nat, gid : Nat, groups : Nat, bits : SUBSET Bits, n : Nat]

TypeOK ==
  /\ kind \in {"userns", "launcher", "cred", "password"}
  /\ proc \in Processes
  /\ ns \in [uid_map : BOOLEAN, gid_map : BOOLEAN, projid_map : BOOLEAN, denied : BOOLEAN, writers : SUBSET {"parent", "child"}]

\* Until the user ID is set nothing is inheritable; from then on the first n
\* capabilities of the list are, and ambient if that was asked for, so that
\* none of them is lost again.
LauncherInv ==
  LET raised == {opt.list[j] : j \in 1..proc.n}
  IN /\ opt \in [user : {0, 1000}, list : CapLists, ambient : BOOLEAN]
     /\ proc.pc \in {"start", "groups", "gid", "uid", "raise", "exec", "failed"}
     /\ proc.pc \in {"start", "groups", "gid", "uid"} => proc.n = 0 /\ proc.i = {} /\ proc.a = {} /\ proc.uid = 0
     /\ proc.pc \in {"groups", "gid", "uid"} => "s" \in proc.bits
     /\ proc.pc \in {"gid", "uid", "raise", "exec"} => proc.groups = opt.user
     /\ proc.pc \in {"uid", "raise", "exec"} => proc.gid = opt.user
     /\ proc.pc \in {"raise", "exec"} => proc.uid = opt.user
     /\ proc.pc = "raise" =>
          /\ proc.n <= Len(opt.list) /\ raised \subseteq proc.i
          /\ proc.a = IF opt.ambient THEN raised ELSE {}
          /\ proc.a \subseteq proc.p \cap proc.i
     /\ LaunchedAsAsked

CredInv ==
  /\ opt \in [user : {1000}, groups : BOOLEAN]
  /\ proc.pc \in {"start", "gid", "uid", "exec", "failed"}
  /\ proc.pc \in {"gid", "uid", "exec"} /\ opt.groups => proc.groups = 1000
  /\ proc.pc \in {"uid", "exec"} => proc.gid = 1000
  /\ At("exec") => proc.uid = 1000

\* The parent's way through the maps, its end of the pipe open until it has
\* written them all or failed; the child's, which goes on when nobody has the
\* pipe's write end any more.
MapsSoFar ==
  LET past(l) == parent \in l \cup {"close", "waitpid", "exit"}
  IN /\ past({"setgroups", "gid_map", "projid_map"}) /\ "uid_map" \in Wanted => ns.uid_map
     /\ past({"gid_map", "projid_map"}) /\ "gid_map" \in Wanted /\ opt.deny => ns.denied
     /\ past({"projid_map"}) /\ "gid_map" \in Wanted => ns.gid_map
     /\ past({}) /\ "projid_map" \in Wanted => ns.projid_map
UsernsInv ==
  /\ opt \in UsernsOptions
  /\ parent \in {"parse", "clone", "uid_map", "setgroups", "gid_map", "projid_map", "close", "waitpid", "exit", "failed"}
  /\ proc.pc \in {"none", "close", "read", "options", "exec", "failed"}
  /\ parent \in {"parse", "clone"} => proc.pc = "none"
  /\ parent # "parse" /\ (parent # "failed" \/ proc.pc # "none") =>
       (Wanted # {} => opt.user) /\ \A j \in DOMAIN opt.list : opt.list[j].opt # "S"
  /\ MapsSoFar
  /\ parent \in Maps => parent \in Wanted
  /\ parent = "setgroups" => "gid_map" \in Wanted /\ opt.deny
  /\ parent \in Maps \cup {"setgroups", "close"} => "parent" \in ns.writers
  /\ At("close") => "child" \in ns.writers
  /\ proc.pc \in {"options", "exec", "failed"} => parent \in {"waitpid", "exit", "failed"}
  /\ proc.pc \in {"none", "close", "read"} => proc.n = 0 /\ proc.bits = {} /\ proc.a = {} /\ proc.uid # 0
  /\ proc.n <= Len(opt.list)
  /\ opt.user /\ (proc.pc \in {"close", "read"} \/ (At("options") /\ proc.n = 0)) =>
       proc.p = Caps /\ proc.e = Caps /\ proc.b = Caps
  /\ At("options") /\ proc.n = 0 =>
       proc.bits = {} /\ proc.a = {} /\ (IF ns.uid_map THEN proc.uid = MapsTo ELSE proc.uid # 0)
  /\ MapsThenCommand

IInv ==
  /\ TypeOK
  /\ kind = "launcher" => LauncherInv
  /\ kind = "cred" => CredInv
  /\ kind = "password" => proc.pc \in {"start", "getspnam", "drop", "getpass", "exec", "failed"} /\ LaunchedAsAsked
  /\ kind = "userns" => UsernsInv
=============================================================================
