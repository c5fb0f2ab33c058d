-------------------------------- MODULE MCLibs --------------------------------
(***************************************************************************)
(* Buffers, and what outlives a restart: circular buffers, the objects of  *)
(* norfs and the logs of klog, one in each behaviour: `part' tells which.  *)
(* The buffers have the variables of module Cbuf.  A variable a behaviour  *)
(* has no use for is NULL.                                                 *)
(***************************************************************************)
EXTENDS Cbuf

CONSTANTS
    DELETED,        \* of norfs
    NULL

VARIABLES
    part,
    flash, fs, call, allowed, status, hurt, restarts,   \* of Norfs
    puts,                                               \* of Norfs and Klog
    kbuf, klog, chars, unread, unchecked                \* of Klog

norfsOnly == <<flash, fs, call, allowed, status, hurt, restarts>>
klogOnly == <<kbuf, klog, chars, unread, unchecked>>
all == <<part, vars, norfsOnly, puts, klogOnly>>

\* The flags a cbuf is used with: the default ones, a hardware writer and no
\* event, and a hardware reader, with chunks where the software copies.
SW == {"SW_IS_WRITER", "SW_IS_READER"}
FlagSets ==
    {SW, {"SW_IS_READER", "USE_MAX_CHUNK_R", "no_event"}, {"SW_IS_WRITER", "USE_MAX_CHUNK_W"}}

\* Three blocks of two objects: collections leave records of the same object
\* behind in another block.
O == INSTANCE Norfs WITH
    Key <- {1, 2}, Lengths <- {2}, FLASH_PAGE_SIZE <- 16, NORFS_NUM_BLOCKS <- 3,
    VERSIONS <- 64, MaxPuts <- 5, MaxRestarts <- 1

\* Two blocks, and objects that fill one exactly or are too big.
P == INSTANCE Norfs WITH
    Key <- {1, 2, 3}, Lengths <- {1, 2, 3}, FLASH_PAGE_SIZE <- 16, NORFS_NUM_BLOCKS <- 2,
    VERSIONS <- 64, MaxPuts <- 3, MaxRestarts <- 1

\* Two logs of four bytes.
K == INSTANCE Klog WITH
    log_count <- 2, size <- 4, BYTE <- 4, Chars <- {1, 3}, CharIsSigned <- FALSE,
    Lens <- {2}, Others <- FALSE, MaxChars <- 5

NoNorfs ==
    /\ flash = NULL /\ fs = NULL /\ call = NULL /\ allowed = NULL
    /\ status = NULL /\ hurt = NULL /\ restarts = NULL
NoKlog == kbuf = NULL /\ klog = NULL /\ chars = NULL /\ unread = NULL /\ unchecked = NULL

\* The cbuf starts with the default flags in the other parts.
LibsInit ==
    /\ Init
    /\ \/ part = "cbuf" /\ NoNorfs /\ NoKlog /\ puts = NULL
       \/ part = "norfs" /\ flags = SW /\ O!Init /\ NoKlog
       \/ part = "norfs full" /\ flags = SW /\ P!Init /\ NoKlog
       \/ part = "klog" /\ flags = SW /\ K!Init /\ NoNorfs

\* The steps of each part, which leave the others alone.
LibsNext ==
    \/ part = "cbuf" /\ Next /\ UNCHANGED <<part, norfsOnly, puts, klogOnly>>
    \/ /\ (part = "norfs" /\ O!Next) \/ (part = "norfs full" /\ P!Next)
       /\ UNCHANGED <<part, vars, klogOnly>>
    \/ part = "klog" /\ K!Next /\ UNCHANGED <<part, vars, norfsOnly>>

LibsSpec == LibsInit /\ [][LibsNext]_all

-----------------------------------------------------------------------------

(***************************************************************************)
(* What was stored is there after a restart.  lib/norfs/norfs.c: what was  *)
(* put or removed is what is read, through collections, after an unmount   *)
(* and after power failed in a call.  lib/klog/klog.c: a log has the last  *)
(* characters written to it, through resets, and is found again after one. *)
(***************************************************************************)
Durable ==
    /\ part = "norfs" => O!Durable
    /\ part = "norfs full" => P!Durable
    /\ part = "klog" => K!KlogKept

(***************************************************************************)
(* lib/norfs/norfs.c: the free blocks, the reference counts and the        *)
(* remaining space agree with what flash holds, made by mounting or by the *)
(* calls since; and an object for which there is remaining space is stored.*)
(***************************************************************************)
BooksExact ==
    /\ part = "norfs" => O!BooksExact /\ O!SpaceIsFound
    /\ part = "norfs full" => P!BooksExact /\ P!SpaceIsFound
==============================================================================
