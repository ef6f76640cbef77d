--------------------------- MODULE EncryptedFiles ---------------------------
(***************************************************************************)
(* Transparent encryption: sys_encry and sys_decry of kernel/sys.c, and    *)
(* file_read and file_write of fs/file_dev.c, which decrypt the blocks of  *)
(* a listed file in the buffer cache, work on them, and encrypt them again.*)
(*                                                                         *)
(* A process gives up the processor where it reads a block: a step goes    *)
(* from one such place to the next, and what it saw before may be stale.   *)
(* The two lists are kept in files of their own, here as texts of one      *)
(* block.  All regular files are in one directory.                         *)
(***************************************************************************)
EXTENDS KeyTable, Cipher

CONSTANTS
  Files,        \* inode numbers of the regular files
  Dir,          \* of their directory
  Fresh,        \* the sizes that files may have at first
  Counts,       \* lengths of reads and writes
  Byte,         \* what a write writes
  MaxSize,      \* bound on the size of a file
  MaxCalls      \* bound on the number of system calls

ASSUME FilesAssumption ==
  /\ Files \subseteq Nat \ {0} /\ Dir \in Nat \ ({0} \cup Files)
  /\ Fresh \subseteq 1..MaxSize /\ Counts \subseteq Nat \ {0} /\ MaxSize \in Nat /\ MaxCalls \in Nat

\* hashString of every key there is.
Hash == [k \in Keys \cup {NoKey} |-> hashString(k)]

VARIABLES
  blocks,       \* blocks[f]: the blocks of f; block 0 of the device is [0]
  i_size,       \* i_size[f]
  glavni,       \* .encryptedList: the files
  foldere,      \* .encrFolders: the directories
  flipped,      \* whether the i_mode of Dir is complemented
  act,          \* act[s]: the call that process s is in
  calls,        \* system calls made so far
  plain,        \* what users wrote: the blocks of f in clear
  spoiled       \* the files that were handled in a way that loses them

fileVars == <<blocks, i_size, glavni, foldere, flipped>>
ghosts == <<plain, spoiled>>
vars == <<keyVars, fileVars, act, calls, ghosts>>

\* The block of the device that bmap names for a block a file does not have.
Boot == 0

Zeros == [n \in 0..(BLOCK_SIZE - 1) |-> 0]
BlocksOf(n) == (n + BLOCK_SIZE - 1) \div BLOCK_SIZE

\* The locals of a call: tmp is what the list says of f, hash what the walk
\* through a directory was given, own whether key is the process's own.
Locals == [at |-> "user", what |-> "none", f |-> 0, todo |-> {}, tmp |-> -1,
           hash |-> -1, key |-> NoKey, own |-> FALSE, left |-> 0, pos |-> 0,
           count |-> 0]

Init ==
  /\ KeyInit
  /\ i_size \in {[f \in Files |-> n] : n \in Fresh}
  /\ blocks = [f \in Files \cup {Boot} |->
                 [b \in 1..(IF f = Boot THEN 1 ELSE BlocksOf(i_size[f])) |->
                    [n \in 0..(BLOCK_SIZE - 1) |-> n + 1]]]
  /\ plain = blocks
  /\ glavni = <<>> /\ foldere = <<>> /\ flipped = FALSE
  /\ act = [s \in Slots |-> Locals]
  /\ calls = 0
  /\ spoiled = {}

InUser(s) == act[s].at = "user"
At(s, w) == kset = Idle /\ act[s].at = w

\* Two calls on one file at once.
Busy(f) == \E s \in Slots : ~InUser(s) /\ f \in {act[s].f} \cup act[s].todo

HasKey(s) == global_key # NoKey \/ nizProcesIDova[s] # -1

\* get_hash_for_current_key.
CurrentHash(s) == IF HasKey(s) THEN Hash[CurrentKey(s)] ELSE -1

\* A process goes on at w, its locals changed to c.
Go(s, w, c) == act' = [act EXCEPT ![s] = [c EXCEPT !.at = w]]
Begin(s, w, what, f, more) ==
  Go(s, w, [Locals EXCEPT !.what = what, !.f = f, !.todo = more,
                          !.key = global_key, !.hash = CurrentHash(s)])
Done(s) == act' = [act EXCEPT ![s] = Locals]

\* The blocks a loop "block = i_size; while (block > 0) block -= 1024" visits.
BlockAt(f, left) ==
  LET b == (left \div BLOCK_SIZE) + 1
  IN IF b <= Len(blocks[f]) THEN <<f, b>> ELSE <<Boot, 1>>

\* One round of such a loop.
Visited(f, left) == blocks[BlockAt(f, left)[1]][BlockAt(f, left)[2]]
Rewrite(f, left, block) ==
  [blocks EXCEPT ![BlockAt(f, left)[1]][BlockAt(f, left)[2]] = block]

---------------------------------------------------------------------------
(* Calls begin.  namei has found the file; it may sleep, which changes     *)
(* nothing here.                                                           *)

Enter(s) ==
  /\ At(s, "user") /\ calls < MaxCalls
  /\ calls' = calls + 1
  /\ UNCHANGED <<keyVars, fileVars, plain>>

Disturb(fs) == spoiled' = spoiled \cup {f \in fs : Busy(f)}

SysReadWrite(s, f, what, pos, count) ==
  /\ Enter(s)
  /\ pos <= i_size[f]
  /\ IF what = "read" THEN pos < i_size[f] ELSE pos + count <= MaxSize
  /\ Go(s, "list", [Locals EXCEPT !.what = what, !.f = f, !.pos = pos,
                       !.count = IF what = "read"
                                   THEN Min({count, i_size[f] - pos}) ELSE count])
  /\ Disturb({f})

\* sys_encry of a file.
SysEncry(s, f) ==
  /\ Enter(s)
  /\ HasKey(s)
  /\ Begin(s, "list", "encry", f, {})
  /\ Disturb({f})

\* sys_decry of a file.
SysDecry(s, f) ==
  /\ Enter(s)
  /\ HasKey(s)
  /\ Begin(s, "folders", "decry", f, {})
  /\ Disturb({f})

\* sys_encry of the directory walks through its files.  A directory that is
\* encrypted already would be taken for a regular file; that is left out.
SysEncryDir(s) ==
  /\ Enter(s)
  /\ HasKey(s) /\ ~flipped
  /\ \A r \in Slots : InUser(r) \/ act[r].what # "encrydir"
  /\ Begin(s, "walk", "encrydir", Dir, Files)
  /\ Disturb(Files)

\* sys_decry of the directory unlists it, with whatever key, and then walks.
SysDecryDir(s) ==
  /\ Enter(s)
  /\ HasKey(s)
  /\ isItInTheFile(foldere, Dir) # -1
  /\ \A r \in Slots : InUser(r) \/ act[r].what # "decrydir"
  /\ Begin(s, "dirlist", "decrydir", Dir, Files)
  /\ Disturb(Files)

---------------------------------------------------------------------------
(* The list has been read.                                                 *)

\* The call is over, or the walk goes on.
Onward(s, c) ==
  IF c.what \in {"encrydir", "decrydir"} THEN Go(s, "walk", c) ELSE Done(s)

\* decryWithInode chooses a key that has this hash, the global one first.
KeyToDecrypt(s, hash) ==
  IF Hash[global_key] = hash THEN global_key
  ELSE IF nizProcesIDova[s] # -1 /\ Hash[CurrentKey(s)] = hash
    THEN CurrentKey(s) ELSE NoKey

Spoil(f, when) == spoiled' = IF when THEN spoiled \cup {f} ELSE spoiled

\* file_read, file_write: a listed file is decrypted first, if the key is
\* there; if not, the call goes on all the same.
ListForRW(s) ==
  /\ At(s, "list") /\ act[s].what \in {"read", "write"}
  /\ LET c == act[s]
         tmp == isItInTheFile(glavni, c.f)
         key == IF tmp = -1 THEN NoKey ELSE KeyToDecrypt(s, tmp)
     IN /\ Go(s, IF key = NoKey THEN "copy" ELSE "decrypt",
              [c EXCEPT !.tmp = tmp, !.key = key, !.left = i_size[c.f]])
        /\ Spoil(c.f, tmp # -1 /\ key = NoKey)
  /\ UNCHANGED <<keyVars, fileVars, calls, plain>>

\* sys_decry has found that f is not on the list of directories, and takes a
\* copy of the global key.
FoldersForDecry(s) ==
  /\ At(s, "folders")
  /\ Go(s, "list", [act[s] EXCEPT !.key = global_key])
  /\ UNCHANGED <<keyVars, fileVars, calls, ghosts>>

\* sys_encry of a file that is not listed: the key is the process's own, or
\* the global one as it was when the call began, the hash that of the key in
\* force now.  The entry is written when the list has been read once more.
ListForEncry(s) ==
  /\ At(s, "list") /\ act[s].what \in {"encry", "encrydir"}
  /\ LET c == act[s]
         hash == Hash[CurrentKey(s)]
     IN IF isItInTheFile(glavni, c.f) # -1
          THEN Onward(s, c)
          ELSE Go(s, "enlist",
                  [c EXCEPT !.key = IF nizProcesIDova[s] # -1
                                      THEN CurrentKey(s) ELSE @,
                            !.tmp = hash])
  /\ UNCHANGED <<keyVars, fileVars, calls, ghosts>>

\* encryWithInode takes the key that is in force now; sys_encry took it when
\* it looked into the list.  Without a key encryWithInode gives up, and
\* sys_encry dies of a division by the key's length.
Enlist(s) ==
  /\ At(s, "enlist")
  /\ LET c == act[s]
         key == IF c.what = "encry" THEN c.key ELSE CurrentKey(s)
     IN /\ glavni' = upisiUFajl(glavni, c.f, c.tmp)
        /\ IF key = NoKey THEN Onward(s, c)
             ELSE Go(s, "encrypt", [c EXCEPT !.key = key, !.left = i_size[c.f]])
        /\ Spoil(c.f, key = NoKey \/ Hash[key] # c.tmp)
  /\ UNCHANGED <<keyVars, blocks, i_size, foldere, flipped, calls, plain>>

\* sys_decry of a file: the process's own key, or else the global one, must
\* have the hash that is noted.  Through a directory nothing is compared.
ListForDecry(s) ==
  /\ At(s, "list") /\ act[s].what \in {"decry", "decrydir"}
  /\ LET c == act[s]
         tmp == isItInTheFile(glavni, c.f)
         own == nizProcesIDova[s] # -1 /\ Hash[CurrentKey(s)] = tmp
         global == global_key # NoKey /\ Hash[global_key] = tmp
     IN IF tmp = -1 \/ (c.what = "decry" /\ ~own /\ ~global)
          THEN Onward(s, c)
          ELSE Go(s, "delist", [c EXCEPT !.own = own, !.tmp = tmp])
  /\ UNCHANGED <<keyVars, fileVars, calls, ghosts>>

\* The key with which a file that was cut out of the list is decrypted: the
\* process's own is copied only now.
DelistKey(s) ==
  IF act[s].what = "decrydir" THEN KeyToDecrypt(s, act[s].hash)
  ELSE IF ~act[s].own THEN act[s].key
  ELSE IF nizProcesIDova[s] # -1 THEN CurrentKey(s) ELSE NoKey

\* The entry is cut out of the list.  When another entry is hit instead the
\* files it stands for are lost, all of them if the text becomes unreadable;
\* then the list is taken to be empty.
Delist(s) ==
  /\ At(s, "delist")
  /\ LET c == act[s]
         new == izbrisiIzFajla(glavni, c.f, Len(brojToString(c.tmp)))
         key == DelistKey(s)
         hit == {f \in Files \ {c.f} :
                   \/ ~WellFormed(new)
                   \/ isItInTheFile(new, f) # isItInTheFile(glavni, f)}
     IN /\ glavni' = IF WellFormed(new) THEN new ELSE <<>>
        /\ IF key = NoKey THEN Onward(s, c)
             ELSE Go(s, "decrypt", [c EXCEPT !.key = key, !.left = i_size[c.f]])
        /\ spoiled' = spoiled \cup hit
             \cup (IF Hash[key] = c.tmp /\ isItInTheFile(new, c.f) = -1
                     THEN {} ELSE {c.f})
  /\ UNCHANGED <<keyVars, blocks, i_size, foldere, flipped, calls, plain>>

\* The walk: the next file, in the order of the directory; at its end an
\* encrypted directory is listed.
Walk(s) ==
  /\ At(s, "walk")
  /\ LET c == act[s]
     IN IF c.todo # {}
          THEN Go(s, "list", [c EXCEPT !.f = Min(c.todo), !.todo = @ \ {Min(c.todo)}])
          ELSE IF c.what = "encrydir"
          THEN Go(s, "dirlist", [c EXCEPT !.f = Dir])
          ELSE Done(s)
  /\ UNCHANGED <<keyVars, fileVars, calls, ghosts>>

\* encry_Direktorijum, and decry_Direktorijum before the walk.
ListDir(s) ==
  /\ At(s, "dirlist")
  /\ LET c == act[s]
         digits == IF c.hash = -1 THEN 1 ELSE Len(brojToString(c.hash))
         new == izbrisiIzFajla(foldere, Dir, digits)
     IN IF c.what = "encrydir"
          THEN /\ foldere' = upisiUFajl(foldere, Dir, Hash[CurrentKey(s)])
               /\ Done(s)
          ELSE /\ foldere' = IF WellFormed(new) THEN new ELSE <<>>
               /\ Go(s, "walk", [c EXCEPT !.hash = CurrentHash(s)])
  /\ flipped' = ~flipped
  /\ UNCHANGED <<keyVars, blocks, i_size, glavni, calls, ghosts>>

---------------------------------------------------------------------------
(* Blocks.                                                                 *)

Decrypt(s) ==
  /\ At(s, "decrypt")
  /\ LET c == act[s]
         d == [c EXCEPT !.left = @ - BLOCK_SIZE]
     IN /\ blocks' = Rewrite(c.f, c.left, dekriptuj(Visited(c.f, c.left), c.key))
        /\ IF d.left > 0 THEN Go(s, "decrypt", d)
           ELSE IF c.what \in {"read", "write"} THEN Go(s, "copy", d)
           ELSE Onward(s, d)
  /\ UNCHANGED <<keyVars, i_size, glavni, foldere, flipped, calls, ghosts>>

Encrypt(s) ==
  /\ At(s, "encrypt")
  /\ LET c == act[s]
         d == [c EXCEPT !.left = @ - BLOCK_SIZE]
     IN /\ blocks' = Rewrite(c.f, c.left, enkriptuj(Visited(c.f, c.left), c.key))
        /\ IF d.left > 0 THEN Go(s, "encrypt", d) ELSE Onward(s, d)
  /\ UNCHANGED <<keyVars, i_size, glavni, foldere, flipped, calls, ghosts>>

\* f with the bytes from pos on to the end of the block or of the write.
Put(f, bs, pos, n, byte) ==
  LET b == pos \div BLOCK_SIZE + 1
      grown == IF b > Len(bs) THEN Append(bs, Zeros) ELSE bs
  IN [grown EXCEPT ![b] =
        [k \in 0..(BLOCK_SIZE - 1) |->
           IF k \in (pos % BLOCK_SIZE)..((pos % BLOCK_SIZE) + n - 1)
             THEN byte ELSE @[k]]]

\* One round of the loop of file_read or file_write; then the file is
\* encrypted again, with the key in force now, whatever it was before.
Copy(s) ==
  /\ At(s, "copy")
  /\ \E byte \in Byte :
     LET c == act[s]
         n == Min({c.count, BLOCK_SIZE - (c.pos % BLOCK_SIZE)})
         write == c.what = "write"
         size == IF write THEN Max({i_size[c.f], c.pos + n}) ELSE i_size[c.f]
         key == CurrentKey(s)
         d == [c EXCEPT !.pos = @ + n, !.count = @ - n]
         over == n = c.count
     IN /\ IF write
             THEN /\ blocks' = [blocks EXCEPT ![c.f] = Put(c.f, @, c.pos, n, byte)]
                  /\ plain' = [plain EXCEPT ![c.f] = Put(c.f, @, c.pos, n, byte)]
             ELSE /\ byte = Min(Byte)
                  /\ UNCHANGED <<blocks, plain>>
        /\ i_size' = [i_size EXCEPT ![c.f] = size]
        /\ IF ~over THEN Go(s, "copy", d)
           ELSE IF c.tmp # -1 /\ key # NoKey
           THEN Go(s, "encrypt", [d EXCEPT !.key = key, !.left = size])
           ELSE Done(s)
        /\ Spoil(c.f, over /\ c.tmp # -1
                      /\ (key = NoKey \/ Hash[key] # c.tmp))
  /\ UNCHANGED <<keyVars, glavni, foldere, flipped, calls>>

---------------------------------------------------------------------------
\* sys_keyset and sys_keyclear, and the clock.
KeyCall(s) ==
  /\ At(s, "user") /\ calls < MaxCalls
  /\ calls' = calls + 1
  /\ \/ \E k \in Keys : KeysetGlobal(k) \/ KeysetLocal(s, k)
     \/ KeyclearGlobal
     \/ KeyclearLocal(s)
  /\ UNCHANGED <<fileVars, act, ghosts>>

KeyRest ==
  /\ KeysetRenew \/ KeysetClaim \/ Clock
  /\ UNCHANGED <<fileVars, act, calls, ghosts>>

FileCall(s) ==
  \/ \E f \in Files : SysEncry(s, f) \/ SysDecry(s, f)
  \/ \E f \in Files, count \in Counts :     \* bound: two places in a file
       \/ SysReadWrite(s, f, "read", 0, count)
       \/ SysReadWrite(s, f, "write", i_size[f] - 1, count)
  \/ SysEncryDir(s) \/ SysDecryDir(s)

FileStep(s) ==
  \/ ListForRW(s) \/ FoldersForDecry(s) \/ ListForEncry(s) \/ Enlist(s) \/ ListForDecry(s)
  \/ Delist(s) \/ Walk(s) \/ ListDir(s)
  \/ Decrypt(s) \/ Encrypt(s) \/ Copy(s)

Next == KeyRest \/ \E s \in Slots : KeyCall(s) \/ FileCall(s) \/ FileStep(s)

Spec == Init /\ [][Next]_vars

---------------------------------------------------------------------------
(* Properties.                                                             *)

\* What the users of f would see, were it decrypted with the right key.
InClear(f) ==
  LET hash == isItInTheFile(glavni, f)
      key == CHOOSE k \in Keys : Hash[k] = hash
      visited == {BlockAt(f, i_size[f] - k * BLOCK_SIZE)[2] :
                    k \in {j \in 0..MaxSize : j * BLOCK_SIZE < i_size[f]
                             /\ BlockAt(f, i_size[f] - j * BLOCK_SIZE)[1] = f}}
  IN [b \in DOMAIN blocks[f] |->
        IF hash # -1 /\ b \in visited
          THEN dekriptuj(blocks[f][b], key) ELSE blocks[f][b]]

\* No file is lost: as long as a file is only handled by one call at a time,
\* with the key it was encrypted with in force from the call's beginning to
\* its end, what its users wrote can be read back from it, whatever was
\* written over its old end, and while a listed file is copied from or to it
\* lies there in clear.
RoundTrip ==
  \A f \in Files \ spoiled :
    /\ ~Busy(f) => InClear(f) = plain[f]
    /\ \A s \in Slots : (act[s].at = "copy" /\ act[s].f = f)
                          => blocks[f] = plain[f]
=============================================================================
