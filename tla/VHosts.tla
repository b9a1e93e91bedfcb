--------------------------------- MODULE VHosts ---------------------------------
(* Product vhosts (vhost.go, vhost_api.go, vhost_runtime.go): the table that routes
   a product's host name to its upstream, the cutover and reload requests that
   change it, and the file it is loaded from, which operators also edit.

   A step is a critical section of vhostMu or one system call. setVHostUpstream
   copies the slice of entries, not the array behind it, and encodes it after the
   lock is released: until the table moves to another array, a copy shows what
   later cutovers write. (Encoding is one step: an entry that is being written is
   seen before or after, never torn.) The temporary file has one name for all, so
   an open descriptor may refer to a file that has been renamed meanwhile. *)
EXTENDS Integers, Sequences

CONSTANTS
    Admins,      \* cutover requests that may be in progress at one time
    Reloaders,   \* reload requests, likewise
    Www,         \* Www[d]: the domain "www." + d
    Cutovers,    \* the entries that cutover requests ask for
    Files,       \* what operators write into the file
    None

(* An upstream without scheme or host, or cloud:// without a cloud to expand to. *)
Unusable == "unusable"
Procs == Admins \cup Reloaders

(* The conditions under which routes are kept: no two cutovers are in progress at
   one time, and a cutover names an upstream that can be used. *)
OneCutover == \A a, b \in Admins : a = b
UsableCutovers == \A e \in Cutovers : e.upstream # Unusable

VARIABLES
    path, tmp,   \* the entries in the file and in file.tmp, None when absent
    vhostFile,   \* the table in memory
    handlers,    \* vhostHandlers: domain -> upstream
    pc,          \* where a request stands
    copy,        \* fileCopy of a cutover
    shares,      \* cutovers whose copy has its array in common with the table
    fd,          \* what the descriptor of a cutover is open on: "tmp", "path", "gone"
    raw          \* what loadVHosts has read

disk   == <<path, tmp>>
memory == <<vhostFile, handlers>>
local  == <<copy, shares, fd, raw>>
vars   == <<disk, memory, pc, local>>

Entries == UNION {{f[i] : i \in DOMAIN f} : f \in Files} \cup Cutovers
Domains == {e.domain : e \in Entries}
Row == [domain : Domains, upstream : {e.upstream : e \in Entries}]
Table == Seq(Row)

(* What the constants must satisfy: files and cutovers hold rows with an upstream. *)
VHostsConstants ==
    /\ Admins \cap Reloaders = {}
    /\ Files # {} /\ Files \subseteq Table /\ Cutovers \subseteq Row
    /\ \A e \in Entries : e.upstream # None

TypeOK ==
    /\ path \in Table /\ tmp \in Table \cup {None}
    /\ vhostFile \in Table /\ DOMAIN handlers \subseteq Domains
    /\ pc \in [Procs -> {"idle", "open", "write", "rename", "read", "install"}]
    /\ copy \in [Procs -> Table] /\ raw \in [Procs -> Table] /\ shares \subseteq Admins
    /\ fd \in [Procs -> {"tmp", "path", "gone"}]

(* buildVHostHandlers, with expandCloudUpstream: entries without a usable upstream
   get no handler; of two entries for a domain the later counts. *)
buildVHostHandlers(es) ==
    LET usable == {i \in DOMAIN es : es[i].upstream # Unusable}
        of(d) == {i \in usable : es[i].domain = d}
    IN  [d \in {es[i].domain : i \in usable} |->
            es[CHOOSE i \in of(d) : \A j \in of(d) : j <= i].upstream]

(* hostMatchesVHostEntry, for entries without wildcard_subdomains. *)
hostMatchesVHostEntry(host, e) ==
    host = e.domain \/ (e.domain \in DOMAIN Www /\ host = Www[e.domain])

(* matchProductVHost, under the read lock: the first entry that matches and has a
   handler; without one the request goes on to the tunnels. *)
matchProductVHost(host) ==
    LET hits == {i \in DOMAIN vhostFile : /\ vhostFile[i].domain \in DOMAIN handlers
                                          /\ hostMatchesVHostEntry(host, vhostFile[i])}
    IN  IF hits = {} THEN None
        ELSE handlers[vhostFile[CHOOSE i \in hits : \A j \in hits : i <= j].domain]

(* runServer and runLB do not start when the file does not load. *)
Init ==
    /\ path \in Files /\ tmp = None
    /\ vhostFile = path /\ handlers = buildVHostHandlers(path)
    /\ pc = [p \in Procs |-> "idle"]
    /\ copy = [p \in Procs |-> <<>>] /\ shares = {}
    /\ fd = [p \in Procs |-> "gone"] /\ raw = [p \in Procs |-> <<>>]

Goto(p, l) == pc' = [pc EXCEPT ![p] = l]

(* The request is answered, with ok or with an error. *)
Return(p) ==
    /\ Goto(p, "idle")
    /\ raw' = [raw EXCEPT ![p] = <<>>] /\ copy' = [copy EXCEPT ![p] = <<>>]
    /\ fd' = [fd EXCEPT ![p] = "gone"]

--------------------------------------------------------------------------------
(* An entry of the domain or of its www form, ... *)
sameHost(x, e) == x.domain = e.domain \/ (e.domain \in DOMAIN Www /\ x.domain = Www[e.domain])

(* ... and a table after every such entry has changed. *)
retarget(es, e) ==
    [i \in DOMAIN es |-> IF sameHost(es[i], e) THEN [es[i] EXCEPT !.upstream = e.upstream] ELSE es[i]]

(* setVHostUpstream under the lock: entries change in place; a new domain is
   appended, in place or into a new array, as append finds room or not. *)
SetUpstream(p, e) ==
    /\ p \in Admins /\ pc[p] = "idle"
    /\ \/ /\ \E i \in DOMAIN vhostFile : sameHost(vhostFile[i], e)
          /\ vhostFile' = retarget(vhostFile, e)
          /\ shares' = shares \cup {p}
       \/ /\ \A i \in DOMAIN vhostFile : ~sameHost(vhostFile[i], e)
          /\ vhostFile' = Append(vhostFile, e)
          /\ shares' \in {shares \cup {p}, {p}}
    /\ copy' = [q \in Procs |-> IF q = p THEN vhostFile'
                                ELSE IF q \in shares THEN retarget(copy[q], e) ELSE copy[q]]
    /\ Goto(p, "open")
    /\ UNCHANGED <<disk, handlers, fd, raw>>

(* Mutant: the file itself is opened for writing. *)
MutantOpenTmp(p) ==
    /\ pc[p] = "open"
    /\ path' = <<>> /\ tmp' = <<>>
    /\ fd' = [fd EXCEPT ![p] = "path"]
    /\ Goto(p, "write")
    /\ shares' = shares \ {p}
    /\ UNCHANGED <<memory, copy, raw>>

(* persistVHostFile; nobody reads the dated backup. What the copied slice now shows
   is encoded; os.WriteFile creates file.tmp or truncates it, ... *)
OpenTmp(p) ==
    /\ pc[p] = "open"
    /\ tmp' = <<>>
    /\ fd' = [fd EXCEPT ![p] = "tmp"]
    /\ Goto(p, "write")
    /\ shares' = shares \ {p}
    /\ UNCHANGED <<path, memory, copy, raw>>

(* ... writes, ... *)
WriteTmp(p) ==
    /\ pc[p] = "write"
    /\ tmp' = IF fd[p] = "tmp" THEN copy[p] ELSE tmp
    /\ path' = IF fd[p] = "path" THEN copy[p] ELSE path
    /\ Goto(p, "rename")
    /\ UNCHANGED <<memory, copy, shares, fd, raw>>

(* ... and renames it: what others have open as file.tmp is now the file. When
   another request has renamed it already, the call fails. *)
Rename(p) ==
    /\ pc[p] = "rename" /\ tmp # None
    /\ path' = tmp /\ tmp' = None
    /\ fd' = [q \in Procs |-> IF q # p /\ fd[q] = "tmp" THEN "path" ELSE "gone"]
    /\ copy' = [copy EXCEPT ![p] = <<>>]
    /\ Goto(p, "read")
    /\ UNCHANGED <<memory, shares, raw>>

(* handleVHostReload *)
Reload(p) ==
    /\ p \in Reloaders /\ pc[p] = "idle"
    /\ Goto(p, "read")
    /\ UNCHANGED <<disk, memory, local>>

(* loadVHosts: read and parse (an empty YAML file is an empty table) ... *)
ReadFile(p) ==
    /\ pc[p] = "read"
    /\ raw' = [raw EXCEPT ![p] = path]
    /\ Goto(p, "install")
    /\ UNCHANGED <<disk, memory, copy, shares, fd>>

(* ... then replace the table under the lock. *)
Install(p) ==
    /\ pc[p] = "install"
    /\ vhostFile' = raw[p] /\ handlers' = buildVHostHandlers(raw[p])
    /\ shares' = {}
    /\ Return(p)
    /\ UNCHANGED disk

(* A system call fails: the request ends there, with what it has done so far. *)
Fail(p) ==
    /\ pc[p] \in {"open", "write", "rename", "read"}
    /\ Return(p)
    /\ shares' = shares \ {p}
    /\ UNCHANGED <<disk, memory>>

(* The process ends and is started again on the file it finds. *)
Restart ==
    /\ vhostFile' = path /\ handlers' = buildVHostHandlers(path)
    /\ pc' = [p \in Procs |-> "idle"]
    /\ copy' = [p \in Procs |-> <<>>] /\ shares' = {}
    /\ fd' = [p \in Procs |-> "gone"] /\ raw' = [p \in Procs |-> <<>>]
    /\ UNCHANGED disk

(* An operator saves another version of the file. *)
Edit(f) ==
    /\ path' = f
    /\ fd' = [q \in Procs |-> IF fd[q] = "path" THEN "gone" ELSE fd[q]]
    /\ UNCHANGED <<tmp, memory, pc, copy, shares, raw>>

Next ==
    \/ \E p \in Procs : \/ OpenTmp(p) \/ WriteTmp(p) \/ Rename(p) \/ Reload(p)
                        \/ ReadFile(p) \/ Install(p) \/ Fail(p)
                        \/ \E e \in Cutovers : SetUpstream(p, e)
    \/ Restart
    \/ \E f \in Files : Edit(f)

Spec == Init /\ [][Next]_vars

--------------------------------------------------------------------------------
(* PROPERTIES *)

(* The domains every version of the file has a usable upstream for. *)
Primary == {d \in Domains : \A f \in Files : \E i \in DOMAIN f :
                f[i].domain = d /\ f[i].upstream # Unusable}

(* "never lose primary routes": a primary host is served at every moment, through
   cutovers (to usable upstreams), reloads, edits, failed writes and restarts. *)
RoutesKept == \A d \in Primary : matchProductVHost(d) # None
================================================================================
