\* 512 bytes of memory, the first 128 for segment 0; tables of five entries. Entry 4
\* is behind the array of a PCB that counts one segment, and inside, but not sent
\* to the CPU, when it counts two or three.
CONSTANTS
  Pids = {1, 2, 3}
  cant_segmentos = 5
  tam_memoria = 4
  tam_segmento_0 = 1
  Tamanios <- TamaniosDos
  Numeros = {1, 4}
  MaxPedidos = 3
SPECIFICATION Spec
INVARIANTS TypeOK TraduccionFiel LimitesFieles LugarSuficiente
PROPERTIES DireccionVigente ImplementaAsignador
CHECK_DEADLOCK FALSE
