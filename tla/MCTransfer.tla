----------------------------- MODULE MCTransfer -----------------------------
(* Transfer on small schedules of up to three bytes, two to a chunk.        *)
EXTENDS Transfer

MCByte == {0, 1}
\* A weak checksum: the schedules below collide.
MCCrc32(b) == <<0, 0, 0, 0>>
MCValidImport(b) == b # <<0>>
MCCourseCount(b) == Len(b)

Long == {<<0, 1, 1>>}
LongAndShort == {<<0, 1, 1>>, <<1, 0>>}
WithInvalid == {<<0, 1, 1>>, <<0>>}
=============================================================================
