----------------------------- MODULE MCUserMem -----------------------------
EXTENDS UserMem

\* Amounts of sbrk, with two units to a page: within a page, across one boundary
\* and across two, both ways; and two amounts that do all of it in turn.
SbrkAny == {-3, -2, -1, 1, 2, 3}
SbrkTwo == {-2, 3}

\* Pages are interchangeable: two states are the same when the same references lead
\* to the same page, and to the free list.
Refs(page) ==
  <<page \in free,
    {p \in Slot : kpage[p] = page},
    {p \in Slot : stack[p] = page},
    {<<p, v>> \in Slot \X VA : map[p][v] = page}>>

PageView ==
  <<{Refs(page) : page \in Page}, Cardinality(free),
    state, parent, father, guard, sz, frame, panic>>
=============================================================================
