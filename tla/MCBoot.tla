------------------------------- MODULE MCBoot -------------------------------
(***************************************************************************)
(* Small disks for Boot: the shipped boot.conf, one that maps the whole    *)
(* stack and loads no apps, an empty one, and two with a stack size that   *)
(* is not a number (-1); directories with hidden entries, a subdirectory,  *)
(* and one app more than the list holds.                                   *)
(***************************************************************************)
EXTENDS Boot

MCConfFiles ==
    {<<<<"kernel_stack_size", STACK_MAX_PAGES>>, <<"physical_memory_offset", 0>>,
       <<"kernel_stack_auto_grow", KSTACK_DEF_PAGE>>, <<"load_apps", 1>>>>,
     <<<<"load_apps", 1>>, <<"kernel_stack_size", STACK_MAX_PAGES>>, <<"load_apps", 0>>>>,
     << >>,
     <<<<"kernel_stack_size", -1>>>>,
     <<<<"kernel_stack_size", -1>>, <<"kernel_stack_auto_grow", 2>>>>}

Dot == [dot |-> TRUE, dir |-> TRUE, size |-> 0]
Dir == [dot |-> FALSE, dir |-> TRUE, size |-> 0]
File(n) == [dot |-> FALSE, dir |-> FALSE, size |-> n]

MCListings ==
    {<<Dot, Dot, File(1), Dir, File(2)>>, <<Dot, Dot>>, <<Dot, File(3), File(1), File(1)>>}
=============================================================================
