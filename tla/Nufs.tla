-------------------------------- MODULE Nufs --------------------------------
(***************************************************************************)
(* The file system of hw12 as its kernel sees it (nufs.c): the callbacks   *)
(* of the version that keeps an image (temp/hw12) and of the starter       *)
(* (hw12_), whose files are a table in the program.  The kernel asks for   *)
(* attributes before it opens, and reads regular files only.               *)
(***************************************************************************)
EXTENDS Storage, FiniteSets

CONSTANTS
  Paths,    \* what is asked for
  ReadSizes \* the sizes of the kernel's reads

ASSUME NufsAssumption == {"/", "/hello.txt"} \subseteq Paths /\ ReadSizes \subseteq Nat

VARIABLES
  server,   \* "image" or "starter"
  kind,     \* the kernel's attributes of the paths it knows: "dir" or "file"
  reply,    \* what the last callback returned
  crashes   \* history: whether a callback has crashed

nvars == <<mem, base, step, server, kind, reply, crashes>>

NInit ==
  /\ SInit
  /\ server \in {"image", "starter"}
  /\ kind = <<>> /\ reply = 0 /\ crashes = FALSE

ENOENT == 2

\* The starter's table: what a path is, and the length of its data.
file_table == [p \in {"/", "/hello.txt"} |->
                 IF p = "/" THEN [kind |-> "dir",  data |-> "NULL", len |-> 0]
                            ELSE [kind |-> "file", data |-> "text", len |-> 6]]

Silently == UNCHANGED <<server, kind, reply, crashes>>

main == server = "image" /\ storage_init /\ Silently

main_starter ==
  /\ server = "starter" /\ step = "off" /\ step' = "serving"
  /\ UNCHANGED <<mem, base>> /\ Silently

Format == init /\ Silently

Forget == kind' = <<>> /\ reply' = 0

Unmount == Stop /\ Forget /\ UNCHANGED <<server, crashes>>

\* A callback reads through a null pointer, or one that is no address.
Fault == Stop /\ Forget /\ crashes' = TRUE /\ UNCHANGED server

serving == step = "serving"

Reply(result) == reply' = result /\ UNCHANGED <<mem, base, step, server, crashes>>

\* A variant for the checks: every entry of the table is a regular file.
stat_all_files(path) ==
  /\ serving /\ server = "starter"
  /\ \/ /\ path \in DOMAIN file_table
        /\ kind' = [p \in DOMAIN kind \cup {path} |-> IF p = path THEN "file" ELSE kind[p]]
        /\ Reply(0)
     \/ path \notin DOMAIN file_table /\ UNCHANGED kind /\ Reply(-ENOENT)

\* get_stat of the starter.
get_stat(path) ==
  /\ serving /\ server = "starter"
  /\ \/ /\ path \in DOMAIN file_table
        /\ kind' = [p \in DOMAIN kind \cup {path} |-> IF p = path THEN file_table[p].kind ELSE kind[p]]
        /\ Reply(0)
     \/ path \notin DOMAIN file_table /\ UNCHANGED kind /\ Reply(-ENOENT)

\* storage_get_stat: get_file_data prints a character as if it were a string, which may crash,
\* walks on as long as it can read, and finds nothing.
storage_get_stat(path) ==
  /\ serving /\ server = "image"
  /\ \/ Fault
     \/ get_file_data = 0 /\ UNCHANGED kind /\ Reply(-ENOENT)

nufs_getattr(path) == storage_get_stat(path)

nufs_getattr_starter(path) == get_stat(path)

\* It walks over the entries, prints the names they do not have, and gives the kernel none.
nufs_readdir ==
  /\ serving /\ server = "image"
  /\ \/ Fault
     \/ walk[2] = 0 /\ UNCHANGED kind /\ Reply(0)

nufs_readdir_starter ==
  /\ serving /\ server = "starter"
  /\ UNCHANGED kind /\ Reply(0)

\* Length of get_data and its NUL, at most size, whatever the offset; strlen of NULL crashes.
nufs_read(path, size) ==
  /\ serving /\ path \in DOMAIN kind /\ kind[path] = "file"
  /\ IF server = "image" \/ file_table[path].data = "NULL" THEN Fault
     ELSE LET len == file_table[path].len + 1 IN
          UNCHANGED kind /\ Reply(IF size < len THEN size ELSE len)

Answer(result) == serving /\ Reply(result) /\ UNCHANGED kind

nufs_access == Answer(0)

nufs_open(path) == path \in DOMAIN kind /\ Answer(0)

\* mknod, mkdir, unlink, rmdir, rename, chmod and truncate
nufs_refused == Answer(-1)

nufs_write(path) == path \in DOMAIN kind /\ kind[path] = "file" /\ Answer(-1)

NNext == \/ main \/ main_starter \/ Format \/ Unmount
         \/ nufs_access \/ nufs_refused
         \/ nufs_readdir \/ nufs_readdir_starter
         \/ \E path \in Paths :
              \/ nufs_getattr(path) \/ nufs_getattr_starter(path) \/ nufs_open(path) \/ nufs_write(path)
              \/ \E size \in ReadSizes : nufs_read(path, size)

NSpec == NInit /\ [][NNext]_nvars

-----------------------------------------------------------------------------
\* No sequence of lookups, reads and listings that a kernel may ask for makes the starter read
\* through the null data of its directory: the kernel reads what getattr called a regular file.
StarterSurvives == server = "starter" => ~crashes

=============================================================================
