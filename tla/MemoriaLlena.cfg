\* Segments that use the memory up to the last byte, under WORST.
CONSTANTS
  tam_memoria = 6
  tam_segmento_0 = 1
  cant_segmentos = 4
  algoritmo_asignacion = "WORST"
  Pids = {1, 2}
  Tamanios <- TamaniosChicos
  MaxSegmentos = 4
  QuitarMenosUno = {"cabeza"}
SPECIFICATION Spec
INVARIANT LlenaAvisa
CHECK_DEADLOCK FALSE
