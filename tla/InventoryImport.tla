---------------------------- MODULE InventoryImport ----------------------------
(***************************************************************************)
(* The sources of one inventory: an update fetches what its source lists,  *)
(* matches it with the hosts in the database by instance id and by name,   *)
(* and merges it into the inventory or overwrites what came from this      *)
(* source before, in one transaction.  Another source may list the same    *)
(* hosts, and users edit hosts at any time.  There is one group.           *)
(***************************************************************************)
EXTENDS Integers, FiniteSets

CONSTANTS
    Sources,
    IdSources,          \* those that have an instance_id_var
    Names,              \* of hosts, numbers in the order of the names
    Ids,                \* instance ids, positive numbers
    MaxRow,             \* bound of the hosts that ever get a row
    MaxImports, MaxHostEdits

VARIABLES
    options,            \* overwrite, overwrite_vars; the same for all sources
    hosts,              \* the hosts: primary key to row
    group,              \* the sources of the group, if there is one
    members,            \* the hosts in it
    update,             \* the update that has the lock: its source, data and matches
    imports, hostEdits,
    imported            \* history: the import that was the last step: source, data, what was there before it, whether users
                        \* left it so since it was matched

importvars == <<options, hosts, group, members, update, imports, hostEdits, imported>>

NoId == 0
NoRow == 0
Rows == 1 .. MaxRow
Unlisted == [listed |-> FALSE, id |-> NoId, grouped |-> FALSE]
NoGroup == [exists |-> FALSE, sources |-> {}]
NoImport == [source |-> "none"]
NoUpdate == [source |-> "none", data |-> [n \in Names |-> Unlisted], match |-> [n \in Names |-> NoRow],
             byVariable |-> {}, edits |-> 0]

\* What a source may list: hosts with unique ids, or without.
Listings(s) ==
    LET ids == IF s \in IdSources THEN Ids \union {NoId} ELSE {NoId}
    IN  {d \in [Names -> {Unlisted} \union [listed : {TRUE}, id : ids, grouped : BOOLEAN]] :
            \A m, n \in Names : m # n /\ d[m].id # NoId => d[m].id # d[n].id}

\* After a first import: every name with its id in the group.
Init ==
    /\ options \in [overwrite : BOOLEAN, overwrite_vars : BOOLEAN]
    /\ hosts = [p \in Names |-> [name |-> p, instance_id |-> p, variable |-> p, sources |-> IdSources]]
    /\ group = [exists |-> TRUE, sources |-> IdSources]
    /\ members = Names
    /\ update = NoUpdate
    /\ imports = 0 /\ hostEdits = 0
    /\ imported = NoImport

Existing == DOMAIN hosts
HostsOf(rows, s) == {p \in DOMAIN rows : s \in rows[p].sources}
Last(rows, pks) == CHOOSE p \in pks : \A q \in pks : rows[p].name >= rows[q].name

-----------------------------------------------------------------------------
(* Matching *)

\* Rows of this source without instance id, whose variables have it.
ByVariable(s, id) ==
    IF s \notin IdSources THEN {}
    ELSE LET found == {p \in HostsOf(hosts, s) : hosts[p].instance_id = NoId /\ hosts[p].variable = id}
         IN  IF found = {} THEN {} ELSE {Last(hosts, found)}

\* Rows that the id of a listed host claims.
Claimed(s, id) ==
    IF id = NoId THEN {}
    ELSE IF ByVariable(s, id) # {} THEN ByVariable(s, id)
    ELSE {p \in Existing : hosts[p].instance_id = id}

\* _build_pk_mem_host_map: by id, then by name the rows that no id has claimed, over what the id has found.
Match(s, d) ==
    LET listed == {n \in Names : d[n].listed}
        claimed == UNION {Claimed(s, d[n].id) : n \in listed}
        namesake(n) == {p \in Existing \ claimed : hosts[p].name = n}
    IN  [n \in Names |-> IF n \notin listed THEN NoRow
                         ELSE IF namesake(n) # {} THEN CHOOSE p \in namesake(n) : TRUE
                         ELSE IF Claimed(s, d[n].id) # {} THEN Last(hosts, Claimed(s, d[n].id)) ELSE NoRow]

\* What ansible-inventory has found for the update before this is matched under the lock of the inventory.
BuildMaps(s) ==
    /\ imports < MaxImports /\ imports' = imports + 1
    /\ update = NoUpdate
    /\ \E d \in Listings(s) :
          LET ids == {d[n].id : n \in Names} \ {NoId}
          IN  update' = [source |-> s, data |-> d, match |-> Match(s, d), edits |-> hostEdits,
                         byVariable |-> UNION {ByVariable(s, id) : id \in ids}]
    /\ imported' = NoImport
    /\ UNCHANGED <<options, hosts, group, members, hostEdits>>

-----------------------------------------------------------------------------
(* load_into_database, one transaction.  What follows is for the update u of *)
(* source s.                                                               *)

ListedNames(d) == {n \in Names : d[n].listed}
GroupListed(d) == \E n \in Names : d[n].grouped
Matched(u) == {u.match[n] : n \in Names} \intersect Existing

\* _delete_hosts
Remaining(s, u) == IF options.overwrite THEN Existing \ (HostsOf(hosts, s) \ Matched(u)) ELSE Existing

\* _delete_groups
GroupDeleted(s, u) == options.overwrite /\ s \in group.sources /\ ~GroupListed(u.data)

\* _delete_group_children_and_hosts: the memberships of hosts of this source that are neither listed by name nor by id.
KeptMembers(s, u) ==
    LET d == u.data
        names == {n \in Names : d[n].grouped /\ d[n].id = NoId}
        ids == {d[n].id : n \in {m \in Names : d[m].grouped}} \ {NoId}
        returned == {p \in Existing : hosts[p].name \in names \/ hosts[p].instance_id \in ids
                                      \/ (p \in u.byVariable /\ hosts[p].variable \in ids)}
        left == members \intersect Remaining(s, u)
    IN  IF GroupDeleted(s, u) THEN {}
        ELSE IF options.overwrite /\ s \in group.sources THEN left \ (HostsOf(hosts, s) \ returned)
        ELSE left

\* _update_db_host_from_mem_host
Updated(row, n, id, s) ==
    [name |-> n, instance_id |-> id, sources |-> row.sources \union {s},
     variable |-> IF options.overwrite_vars \/ id # NoId THEN id ELSE row.variable]

\* _create_update_hosts: the matched rows in the order of their names; a name that another row still has is an error.
OldName(p) == hosts[p].name
NewName(u, p) == CHOOSE n \in Names : u.match[n] = p
Clash(s, u) ==
    \E p \in Matched(u), q \in Remaining(s, u) :
        /\ p # q /\ OldName(p) # NewName(u, p) /\ OldName(q) = NewName(u, p)
        /\ q \in Matched(u) => OldName(q) > OldName(p)

\* Then the others: a row that has the name by now is taken over, otherwise there is a new one.
ToCreate(u) == {n \in ListedNames(u.data) : u.match[n] \notin Existing}
NewRows(s, u) ==
    LET free == Rows \ (Existing \union {u.match[n] : n \in Names})
        taken == {p \in Remaining(s, u) \ Matched(u) : OldName(p) \in ToCreate(u)}
        created == ToCreate(u) \ {OldName(p) : p \in taken}
        place == CHOOSE f \in [created -> free] : \A m, n \in created : m # n => f[m] # f[n]
        fresh == {place[n] : n \in created}
    IN  [p \in Remaining(s, u) \union fresh |->
            IF p \in Matched(u) THEN Updated(hosts[p], NewName(u, p), u.data[NewName(u, p)].id, s)
            ELSE IF p \in taken THEN
                LET id == u.data[OldName(p)].id
                IN  [hosts[p] EXCEPT !.instance_id = IF s \in IdSources THEN id ELSE @, !.variable = id, !.sources = @ \union {s}]
            ELSE IF p \in fresh THEN
                LET n == CHOOSE m \in created : place[m] = p
                IN  [name |-> n, instance_id |-> u.data[n].id, variable |-> u.data[n].id, sources |-> {s}]
            ELSE hosts[p]]

\* _create_update_group_hosts: the hosts that have a listed name or id now.
Joining(rows, d) ==
    {p \in DOMAIN rows : \E n \in Names :
        d[n].grouped /\ (IF d[n].id = NoId THEN rows[p].name = n ELSE rows[p].instance_id = d[n].id)}

Load ==
    LET u == update
        s == update.source
        rows == NewRows(s, u)
    IN  /\ u # NoUpdate /\ ~Clash(s, u)
        /\ hosts' = rows
        /\ group' = IF GroupListed(u.data) THEN [exists |-> TRUE, sources |-> group.sources \union {s}]
                    ELSE IF GroupDeleted(s, u) THEN NoGroup ELSE group
        /\ members' = KeptMembers(s, u) \union Joining(rows, u.data)
        /\ update' = NoUpdate
        /\ imported' = [source |-> s, data |-> u.data, hosts |-> hosts, group |-> group, members |-> members,
                        undisturbed |-> u.edits = hostEdits]
        /\ UNCHANGED <<options, imports, hostEdits>>

\* Everything is rolled back: a name is not unique, the hosts exceed the license or the limit of the organization, at the
\* beginning or at the end, or the update was canceled.
LoadFails ==
    /\ update # NoUpdate
    /\ update' = NoUpdate
    /\ imported' = NoImport
    /\ UNCHANGED <<options, hosts, group, members, imports, hostEdits>>

-----------------------------------------------------------------------------
(* Users *)

HostEdit == hostEdits < MaxHostEdits /\ hostEdits' = hostEdits + 1 /\ imported' = NoImport

CreateHost(n) ==
    /\ HostEdit
    /\ \A p \in Existing : hosts[p].name # n
    /\ LET free == {p \in Rows \ Existing : \A m \in Names : update.match[m] # p}
       IN  /\ free # {}
           /\ LET new == CHOOSE p \in free : TRUE
                  row == [name |-> n, instance_id |-> NoId, variable |-> NoId, sources |-> {}]
              IN  hosts' = [p \in Existing \union {new} |-> IF p = new THEN row ELSE hosts[p]]
    /\ UNCHANGED <<options, group, members, update, imports>>

\* A bulk deletion does not ask whether the inventory is being updated.
DeleteHost(p) ==
    /\ HostEdit
    /\ hosts' = [q \in Existing \ {p} |-> hosts[q]]
    /\ members' = members \ {p}
    /\ UNCHANGED <<options, group, update, imports>>

\* Into the group, or out of it.
MoveHost(p) ==
    /\ HostEdit
    /\ group.exists
    /\ members' = (members \ {p}) \union ({p} \ members)
    /\ UNCHANGED <<options, hosts, group, update, imports>>

Next ==
    \/ \E s \in Sources : BuildMaps(s)
    \/ Load \/ LoadFails
    \/ \E n \in Names : CreateHost(n)
    \/ \E p \in Existing : DeleteHost(p) \/ MoveHost(p)

Spec == Init /\ [][Next]_importvars

-----------------------------------------------------------------------------

Data == [Names -> [listed : BOOLEAN, id : Ids \union {NoId}, grouped : BOOLEAN]]

TypeOK ==
    /\ options \in [overwrite : BOOLEAN, overwrite_vars : BOOLEAN]
    /\ Existing \subseteq Rows
    /\ \A p \in Existing : hosts[p] \in [name : Names, instance_id : Ids \union {NoId}, variable : Ids \union {NoId},
                                        sources : SUBSET Sources]
    /\ group \in [exists : BOOLEAN, sources : SUBSET Sources]
    /\ members \subseteq Existing
    /\ update \in [source : Sources \union {"none"}, data : Data, match : [Names -> Rows \union {NoRow}],
                   byVariable : SUBSET Rows, edits : 0 .. MaxHostEdits]
    /\ imports \in 0 .. MaxImports /\ hostEdits \in 0 .. MaxHostEdits
    /\ imported = NoImport \/ (imported.source \in Sources /\ imported.data \in Data)

\* The names of the hosts of an inventory are unique.
NamesUnique == \A p, q \in Existing : hosts[p].name = hosts[q].name => p = q

\* Who bears an id: another source may have wiped it out, so that only the variables have it.
HasId(s, row, id) == row.instance_id = id \/ (s \in row.sources /\ row.instance_id = NoId /\ row.variable = id)
IdShared(p) ==
    LET id == imported.hosts[p].instance_id
    IN  id # NoId /\ (imported.undisturbed => \E q \in DOMAIN imported.hosts \ {p} : HasId(imported.source, imported.hosts[q], id))

\* An import leaves what its source lists, under the listed ids, in the listed groups; and when it overwrites, nothing
\* else of this source, but for hosts that share a listed id with another one.
Row(n) == CHOOSE p \in Existing : hosts[p].name = n
ImportedAsListed ==
    imported # NoImport =>
        LET d == imported.data
            mine == HostsOf(hosts, imported.source)
            listed == {n \in Names : d[n].listed}
        IN  /\ listed \subseteq {hosts[p].name : p \in mine}
            /\ options.overwrite => {hosts[p].name : p \in mine} = listed
            /\ \A n \in listed : hosts[Row(n)].instance_id = d[n].id
            /\ \A n \in listed : d[n].grouped => Row(n) \in members
            /\ options.overwrite /\ imported.source \in imported.group.sources =>
                 \A p \in members \intersect HostsOf(imported.hosts, imported.source) :
                    \/ d[hosts[p].name].grouped \/ d[imported.hosts[p].name] \in [listed : {TRUE}, id : {NoId}, grouped : {TRUE}]
                    \/ \E n \in Names : d[n].grouped /\ d[n].id = imported.hosts[p].instance_id /\ IdShared(p)

\* A host keeps its row while its source lists its id, under a new name, too; also when another source has wiped the
\* id out and only the variables have it.  Unless another host had the new name.
IdsFollowed ==
    imported # NoImport /\ imported.undisturbed =>
        \A n \in Names : \A p \in DOMAIN imported.hosts :
            LET id == imported.data[n].id
                bearers == {q \in DOMAIN imported.hosts : HasId(imported.source, imported.hosts[q], id)}
                namesakes == {q \in DOMAIN imported.hosts : imported.hosts[q].name = n}
            IN  id # NoId /\ bearers = {p} /\ namesakes \subseteq {p} => p \in Existing /\ hosts[p].name = n

\* An import leaves alone the hosts that it does not list and that are not of its source.
OthersLeftAlone ==
    imported # NoImport =>
        \A p \in DOMAIN imported.hosts :
            LET row == imported.hosts[p]
            IN  imported.source \notin row.sources /\ ~imported.data[row.name].listed
                /\ (\A n \in Names : imported.data[n].id = NoId \/ imported.data[n].id # row.instance_id)
                => /\ p \in Existing /\ hosts[p] = row
                   /\ p \in imported.members /\ group.exists => p \in members
=============================================================================
