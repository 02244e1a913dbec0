----------------------------- MODULE FileTable -----------------------------
(***************************************************************************)
(* The file table that the tracker and the peers share as code             *)
(* (file_table.c): a function from file names to entries with a timestamp  *)
(* and the set of the owners' addresses.  Every operator is what the       *)
(* function of its name does while it holds table->mutex or fe->rwlock.    *)
(* The owner list is a set: already_in_owners keeps the addresses distinct *)
(* and its order is only compared with lists of one owner.  File types,    *)
(* ports and the counter table->n, which nothing reads, are left out.      *)
(***************************************************************************)
EXTENDS Naturals

FILE_NONE   == "FILE_NONE"
FILE_ADD    == "FILE_ADD"
FILE_DELETE == "FILE_DELETE"
FILE_MODIFY == "FILE_MODIFY"
OpType == {FILE_NONE, FILE_ADD, FILE_DELETE, FILE_MODIFY}

EmptyTable == [f \in {} |-> [timestamp |-> 0, owners |-> {}]]

\* mutants: owners of the old version stay with the new one; an older te wins
file_entry_update_merges(fe, te) ==
  [timestamp |-> IF te.timestamp > fe.timestamp THEN te.timestamp ELSE fe.timestamp,
   owners    |-> fe.owners \cup te.owners]
file_entry_update_always(fe, te) == [timestamp |-> te.timestamp, owners |-> te.owners]

\* fe after file_entry_update(fe, te); an older te changes nothing
file_entry_update(fe, te) ==
  [timestamp |-> IF te.timestamp > fe.timestamp THEN te.timestamp ELSE fe.timestamp,
   owners    |-> IF te.timestamp > fe.timestamp THEN te.owners
                 ELSE IF te.timestamp = fe.timestamp THEN fe.owners \cup te.owners
                 ELSE fe.owners]

\* a new entry, as file_entry_fill_from fills it
file_entry_fill_from(te) == [timestamp |-> te.timestamp, owners |-> te.owners]

\* the table after file_table_add: insert, or update the entry that is there
file_table_add(ft, te) ==
  [f \in DOMAIN ft \cup {te.name} |->
     IF f # te.name THEN ft[f]
     ELSE IF f \in DOMAIN ft THEN file_entry_update(ft[f], te)
     ELSE file_entry_fill_from(te)]

\* the table after file_table_update: a name that is not there is an error
file_table_update(ft, te) ==
  [f \in DOMAIN ft |-> IF f = te.name THEN file_entry_update(ft[f], te) ELSE ft[f]]

\* the table after file_table_delete; the entry's timestamp plays no role
file_table_delete(ft, name) == [f \in DOMAIN ft \ {name} |-> ft[f]]

\* the table once file_table_delete_owner has taken ip from the owners of f
file_entry_strip(ft, f, ip) == [ft EXCEPT ![f].owners = @ \ {ip}]

\* trans_entry_fill_from with the op_type its callers then set
trans_entry_fill_from(ft, f, op) ==
  [op |-> op, name |-> f, timestamp |-> ft[f].timestamp, owners |-> ft[f].owners]

\* the entries of trans_table_fill_from
trans_table_fill_from(ft, op) == {trans_entry_fill_from(ft, f, op) : f \in DOMAIN ft}

has_same_owners(fe, te) == fe.owners = te.owners
=============================================================================
