--------------------------- MODULE MCBufferingSock ---------------------------
EXTENDS BufferingSock
\* One direction: side 0 sends to side 1.
OneWay == {<<0, "send">>, <<1, "recv">>}
=============================================================================
